---- MODULE Spec2Model ----
(***************************************************************************)
(* ZeiTown turn-resolution engine (src/src/store/game.ts) as a state       *)
(* machine.  The game state is the zustand store; every store command is   *)
(* one atomic action.  Observability-only fields (logs, lastCard,          *)
(* lastMovementPath, playerCount, auction) carry no game logic and are     *)
(* left out.  Player ids are 1..n (SetupScreen assigns "player-<k>"),      *)
(* tile ids are the board indices of the tiles.  The board catalog         *)
(* (src/data/board) is an external table: 40 cells.                        *)
(***************************************************************************)
EXTENDS Integers, Sequences, FiniteSets, TLC

-----------------------------------------------------------------------------
(* Program constants *)
START_FUNDS == 1500
PASS_START_BONUS == 200
MAX_UPGRADE_LEVEL == 5
MAX_JAIL_TURNS == 3
JAIL_FINE == 200
RAILWAY_BASE_RENT == 25
START_INDEX == 0
JAIL_INDEX == 10
MIN_PLAYERS == 2

(* Null values of the nullable fields *)
NoPlayer == 0
NoIndex == -1
NoTile == -1
NoGroup == 0
NoAction == [type |-> "none", tileId |-> NoTile, playerId |-> NoPlayer, price |-> 0, nextLevel |-> 0]
NoTrade == [fromId |-> NoPlayer, toId |-> NoPlayer, giveCash |-> 0, receiveCash |-> 0,
            giveTiles |-> {}, receiveTiles |-> {}]

(* Bounds of the model *)
MaxPlayers == 3
MaxDie == 2
MaxRolls == 4
MaxSide == 1
MaxLongRolls == 6
MaxDesk == 2
MaxProposals == 1
MaxJailRolls == 5
MaxBoardRolls == 1
MaxCardRolls == 2

-----------------------------------------------------------------------------
(* Board catalog: 40 tiles; the cells next to the start hold one tile of every kind *)
BoardSize == 40
GoToJailIndex == 9
RailwayGroup == 9
UtilityGroup == 10
RailwayPrice == 200
UtilityPrice == 150
HeavyTax == 1490
DefaultTax == 100

ColourGroups == << {4, 6}, {14, 15, 17}, {18, 19, 21}, {23, 24, 25},
                   {27, 29, 31}, {32, 33, 34}, {35, 37}, {38, 39} >>
PropertyTiles == UNION {ColourGroups[g] : g \in 1..Len(ColourGroups)}
RailwayTiles == {11, 16, 26, 36}
UtilityTiles == {13, 28}
ChanceTiles == {5, 22, 30}
ChestTiles == {3, 7, 20}
TaxTiles == {2, 8, 12}
PricedTaxTiles == {2, 8}
OwnableTiles == PropertyTiles \cup RailwayTiles \cup UtilityTiles

TileType(i) ==
  IF i \in PropertyTiles THEN "property"
  ELSE IF i \in RailwayTiles THEN "railway"
  ELSE IF i \in UtilityTiles THEN "utility"
  ELSE IF i \in ChanceTiles THEN "chance"
  ELSE IF i \in ChestTiles THEN "chest"
  ELSE IF i \in TaxTiles THEN "tax"
  ELSE IF i = GoToJailIndex THEN "gotojail"
  ELSE IF i = START_INDEX THEN "start"
  ELSE IF i = JAIL_INDEX THEN "jail"
  ELSE "parking"

TileGroup(i) ==
  IF i \in RailwayTiles THEN RailwayGroup
  ELSE IF i \in UtilityTiles THEN UtilityGroup
  ELSE IF i \in PropertyTiles THEN CHOOSE g \in 1..Len(ColourGroups) : i \in ColourGroups[g]
  ELSE NoGroup

GroupPrices == <<200, 100, 140, 180, 220, 260, 300, 350>>

TilePrice(i) ==
  IF i \in PropertyTiles THEN GroupPrices[TileGroup(i)]
  ELSE IF i \in RailwayTiles THEN RailwayPrice
  ELSE IF i \in UtilityTiles THEN UtilityPrice
  ELSE IF i \in PricedTaxTiles THEN HeavyTax
  ELSE IF i \in TaxTiles THEN DefaultTax
  ELSE 0

TileRent(i) == IF i \in PropertyTiles THEN TilePrice(i) \div 10 ELSE 0

TileRentLevels(i) ==
  IF i \in PropertyTiles
  THEN [k \in 1..5 |-> TileRent(i) * 5 * k]
  ELSE <<>>

TileHouseCost(i) == IF i \in PropertyTiles THEN 50 * ((TileGroup(i) + 1) \div 2) ELSE 0

TileMortgage(i) == IF i \in OwnableTiles THEN TilePrice(i) \div 2 ELSE 0

(* Card decks *)
CHEST_CARDS ==
  << [action |-> "get-out-of-jail"],
     [action |-> "go-to-jail"],
     [action |-> "repair", houseCost |-> 40, hotelCost |-> 115],
     [action |-> "collect", amount |-> 100] >>

CHANCE_CARDS ==
  << [action |-> "pay", amount |-> 150],
     [action |-> "luck-check", success |-> 100, failure |-> 100],
     [action |-> "move-relative", offset |-> -3],
     [action |-> "advance-to-next", tileType |-> "railway"],
     [action |-> "move", target |-> 0] >>

-----------------------------------------------------------------------------
(* Helpers on the player list (0-based indices, as in the code) *)
IndexOf(ps, id) ==
  IF \E k \in 1..Len(ps) : ps[k].id = id
  THEN (CHOOSE k \in 1..Len(ps) : ps[k].id = id /\ \A j \in 1..(k - 1) : ps[j].id # id) - 1
  ELSE NoIndex

(* the filter dropping the last player instead of the one at idx *)
RemoveAt_Last(ps, idx) == [k \in 1..(Len(ps) - 1) |-> ps[k]]

RemoveAt(ps, idx) == [k \in 1..(Len(ps) - 1) |-> IF k <= idx THEN ps[k] ELSE ps[k + 1]]

PlayerIds(ps) == {ps[k].id : k \in 1..Len(ps)}

IdSeq(ps) == [k \in 1..Len(ps) |-> ps[k].id]

createPropertyState == [t \in OwnableTiles |-> [ownerId |-> NoPlayer, houses |-> 0, mortgaged |-> FALSE]]

normalizePosition(value) == ((value % BoardSize) + BoardSize) % BoardSize

ownsFullSet(ownerId, tile, propertyState) ==
  /\ TileGroup(tile) # NoGroup
  /\ \A g \in 0..(BoardSize - 1) :
       TileGroup(g) = TileGroup(tile) => (g \in DOMAIN propertyState /\ propertyState[g].ownerId = ownerId)

countOwnedInGroup(ownerId, tile, propertyState) ==
  IF TileGroup(tile) = NoGroup THEN 0
  ELSE Cardinality({g \in DOMAIN propertyState :
                      TileGroup(g) = TileGroup(tile) /\ propertyState[g].ownerId = ownerId})

computeWinnerId(ps) == IF Len(ps) = 1 THEN ps[1].id ELSE NoPlayer

Max(a, b) == IF a >= b THEN a ELSE b
Min(a, b) == IF a <= b THEN a ELSE b

(* calculateRent without the doubling for a full colour group *)
calculateRent_NoGroupDouble(tile, playerRoll, propertyState, ownerId) ==
  IF tile \notin DOMAIN propertyState THEN 0
  ELSE IF TileType(tile) = "railway"
       THEN RAILWAY_BASE_RENT * Max(1, countOwnedInGroup(ownerId, tile, propertyState))
  ELSE IF TileType(tile) = "utility"
       THEN playerRoll * (IF countOwnedInGroup(ownerId, tile, propertyState) >= 2 THEN 10 ELSE 4)
  ELSE IF propertyState[tile].houses > 0 /\ Len(TileRentLevels(tile)) > 0
       THEN TileRentLevels(tile)[Min(propertyState[tile].houses, Len(TileRentLevels(tile)))]
  ELSE TileRent(tile)

calculateRent(tile, playerRoll, propertyState, ownerId) ==
  IF tile \notin DOMAIN propertyState THEN 0
  ELSE IF TileType(tile) = "railway"
       THEN RAILWAY_BASE_RENT * Max(1, countOwnedInGroup(ownerId, tile, propertyState))
  ELSE IF TileType(tile) = "utility"
       THEN playerRoll * (IF countOwnedInGroup(ownerId, tile, propertyState) >= 2 THEN 10 ELSE 4)
  ELSE IF propertyState[tile].houses > 0 /\ Len(TileRentLevels(tile)) > 0
       THEN TileRentLevels(tile)[Min(propertyState[tile].houses, Len(TileRentLevels(tile)))]
  ELSE IF ownsFullSet(ownerId, tile, propertyState)
       THEN TileRent(tile) * 2
  ELSE TileRent(tile)

getMortgageValue(tile) ==
  IF TilePrice(tile) = 0 /\ TileMortgage(tile) = 0 THEN 0 ELSE TileMortgage(tile)

determineUpgradeCost(tile, nextLevel) ==
  IF TileHouseCost(tile) = 0 THEN 0
  ELSE IF nextLevel <= 4 THEN TileHouseCost(tile)
  ELSE TileHouseCost(tile) * 2

-----------------------------------------------------------------------------
(* Ledger primitives *)
NoOutcome(ps, propertyState) ==
  [players |-> ps, propertyState |-> propertyState, removedIndex |-> NoIndex, bankruptPlayerId |-> NoPlayer]

(* handleBankruptcy without the disposal of the bankrupt player's properties *)
handleBankruptcy_KeepOwners(ps, propertyState, bankruptId, creditorId) ==
  IF IndexOf(ps, bankruptId) = NoIndex THEN NoOutcome(ps, propertyState)
  ELSE [players |-> RemoveAt(ps, IndexOf(ps, bankruptId)), propertyState |-> propertyState,
        removedIndex |-> IndexOf(ps, bankruptId), bankruptPlayerId |-> bankruptId]

handleBankruptcy(ps, propertyState, bankruptId, creditorId) ==
  LET index == IndexOf(ps, bankruptId)
      creditor == IF creditorId # NoPlayer /\ creditorId \in PlayerIds(ps) THEN creditorId ELSE NoPlayer
  IN IF index = NoIndex THEN NoOutcome(ps, propertyState)
     ELSE [players |-> RemoveAt(ps, index),
           propertyState |->
             [t \in DOMAIN propertyState |->
                IF propertyState[t].ownerId = bankruptId
                THEN IF creditor # NoPlayer
                     THEN [propertyState[t] EXCEPT !.ownerId = creditor]
                     ELSE [ownerId |-> NoPlayer, houses |-> 0, mortgaged |-> FALSE]
                ELSE propertyState[t]],
           removedIndex |-> index,
           bankruptPlayerId |-> bankruptId]

GetFunds(ps, id) == ps[IndexOf(ps, id) + 1].funds

Credit(ps, id, amount) ==
  [k \in 1..Len(ps) |-> IF ps[k].id = id THEN [ps[k] EXCEPT !.funds = @ + amount] ELSE ps[k]]

(* payAmount debiting the payer without crediting the receiver *)
payAmount_NoCredit(ps, propertyState, payerId, receiverId, amount) ==
  IF amount <= 0 \/ IndexOf(ps, payerId) = NoIndex THEN NoOutcome(ps, propertyState)
  ELSE IF GetFunds(ps, payerId) >= amount
  THEN NoOutcome(Credit(ps, payerId, -amount), propertyState)
  ELSE handleBankruptcy([ps EXCEPT ![IndexOf(ps, payerId) + 1].funds = 0], propertyState, payerId, receiverId)

(* payAmount crediting the receiver the amount due, not what the payer has *)
payAmount_FullCredit(ps, propertyState, payerId, receiverId, amount) ==
  IF amount <= 0 \/ IndexOf(ps, payerId) = NoIndex THEN NoOutcome(ps, propertyState)
  ELSE IF GetFunds(ps, payerId) >= amount
  THEN NoOutcome(Credit(Credit(ps, payerId, -amount), receiverId, amount), propertyState)
  ELSE handleBankruptcy(Credit(ps, receiverId, amount), propertyState, payerId, receiverId)

payAmount(ps, propertyState, payerId, receiverId, amount) ==
  LET payerIndex == IndexOf(ps, payerId)
  IN IF amount <= 0 \/ payerIndex = NoIndex THEN NoOutcome(ps, propertyState)
     ELSE LET payer == ps[payerIndex + 1]
          IN IF payer.funds >= amount
             THEN NoOutcome(Credit(Credit(ps, payerId, -amount), receiverId, amount), propertyState)
             ELSE LET available == payer.funds
                      credited == IF available > 0 /\ receiverId # NoPlayer
                                  THEN Credit(ps, receiverId, available) ELSE ps
                      zeroed == [credited EXCEPT ![payerIndex + 1].funds = 0]
                  IN handleBankruptcy(zeroed, propertyState, payerId, receiverId)

(* sendPlayerToJail that moves the token without jailing its player *)
sendPlayerToJail_VisitOnly(player) == [player EXCEPT !.position = JAIL_INDEX]

sendPlayerToJail(player) ==
  [player EXCEPT !.position = JAIL_INDEX, !.inJail = TRUE, !.jailTurns = 0]

SetPlayer(ps, id, p) == [k \in 1..Len(ps) |-> IF ps[k].id = id THEN p ELSE ps[k]]

GetPlayer(ps, id) == ps[IndexOf(ps, id) + 1]

-----------------------------------------------------------------------------
(* Jail resolver *)
JailOutcome(canMove, ps, propertyState, removedIndex) ==
  [canMove |-> canMove, players |-> ps, propertyState |-> propertyState, removedIndex |-> removedIndex]

Release(ps, playerId) ==
  [k \in 1..Len(ps) |-> IF ps[k].id = playerId
                         THEN [ps[k] EXCEPT !.inJail = FALSE, !.jailTurns = 0] ELSE ps[k]]

(* the forced fine of the last jail turn: result is what payAmount returned *)
ForcedFine(result, playerId) ==
  IF result.bankruptPlayerId = playerId
  THEN JailOutcome(FALSE, result.players, result.propertyState, result.removedIndex)
  ELSE JailOutcome(TRUE, Release(result.players, playerId), result.propertyState, result.removedIndex)

(* resolveJailState that never forces the fine *)
resolveJailState_NoForcedFine(player, dieA, dieB, ps, propertyState) ==
  IF ~player.inJail THEN JailOutcome(TRUE, ps, propertyState, NoIndex)
  ELSE IF player.hasGetOutOfJail
  THEN JailOutcome(TRUE, SetPlayer(ps, player.id,
                           [player EXCEPT !.hasGetOutOfJail = FALSE, !.inJail = FALSE, !.jailTurns = 0]),
                   propertyState, NoIndex)
  ELSE IF dieA = dieB
  THEN JailOutcome(TRUE, SetPlayer(ps, player.id, [player EXCEPT !.inJail = FALSE, !.jailTurns = 0]),
                   propertyState, NoIndex)
  ELSE JailOutcome(FALSE, SetPlayer(ps, player.id, [player EXCEPT !.jailTurns = @ + 1]),
                   propertyState, NoIndex)

resolveJailState(player, dieA, dieB, ps, propertyState) ==
  IF ~player.inJail THEN JailOutcome(TRUE, ps, propertyState, NoIndex)
  ELSE IF player.hasGetOutOfJail
  THEN JailOutcome(TRUE, SetPlayer(ps, player.id,
                           [player EXCEPT !.hasGetOutOfJail = FALSE, !.inJail = FALSE, !.jailTurns = 0]),
                   propertyState, NoIndex)
  ELSE IF dieA = dieB
  THEN JailOutcome(TRUE, SetPlayer(ps, player.id, [player EXCEPT !.inJail = FALSE, !.jailTurns = 0]),
                   propertyState, NoIndex)
  ELSE IF player.jailTurns + 1 >= MAX_JAIL_TURNS
  THEN ForcedFine(payAmount(SetPlayer(ps, player.id, [player EXCEPT !.jailTurns = @ + 1]),
                            propertyState, player.id, NoPlayer, JAIL_FINE),
                  player.id)
  ELSE JailOutcome(FALSE, SetPlayer(ps, player.id, [player EXCEPT !.jailTurns = @ + 1]),
                   propertyState, NoIndex)

(* applyPassStartBonus that pays on every forward move *)
applyPassStartBonus_Always(player, previous, next, movedForward) ==
  IF movedForward THEN [player EXCEPT !.funds = @ + PASS_START_BONUS] ELSE player

(* applyPassStartBonus: the funds after the bonus rule *)
applyPassStartBonus(player, previous, next, movedForward) ==
  IF movedForward /\ next < previous
  THEN [player EXCEPT !.funds = @ + PASS_START_BONUS]
  ELSE player

-----------------------------------------------------------------------------
(* Card resolver.  luckDoubles is the outcome of the fresh roll of a luck-check card. *)
NextTileOffset(position, tileType) ==
  LET offs == {o \in 1..BoardSize : TileType((position + o) % BoardSize) = tileType}
  IN IF offs = {} THEN 0 ELSE CHOOSE o \in offs : \A q \in offs : o <= q

RepairFee(meta, card) ==
  Min(meta.houses, MAX_UPGRADE_LEVEL - 1) * card.houseCost
  + (IF meta.houses = MAX_UPGRADE_LEVEL THEN card.hotelCost ELSE 0)

RECURSIVE RepairTotal(_, _, _)
RepairTotal(tiles, propertyState, card) ==
  IF tiles = {} THEN 0
  ELSE LET t == CHOOSE x \in tiles : TRUE
       IN RepairFee(propertyState[t], card) + RepairTotal(tiles \ {t}, propertyState, card)

CardOutcome(ps, propertyState, followUpPosition) ==
  [players |-> ps, propertyState |-> propertyState, followUpPosition |-> followUpPosition]

MoveCard(ps, propertyState, player, next, bonus) ==
  CardOutcome(SetPlayer(ps, player.id,
                applyPassStartBonus([player EXCEPT !.position = next], player.position, next, bonus)),
              propertyState, next)

(* a card that charges the player: result is what payAmount returned *)
PaidCard(result) == CardOutcome(result.players, result.propertyState, NoIndex)

KeptCard(ps, propertyState, player) == CardOutcome(SetPlayer(ps, player.id, player), propertyState, NoIndex)

AdvanceCard(ps, propertyState, player, offset) ==
  IF offset = 0 THEN KeptCard(ps, propertyState, player)
  ELSE MoveCard(ps, propertyState, player, normalizePosition(player.position + offset), TRUE)

handleChanceOrChest(card, player, ps, propertyState, luckDoubles) ==
  CASE card.action = "collect" ->
         KeptCard(ps, propertyState, [player EXCEPT !.funds = @ + card.amount])
    [] card.action = "pay" ->
         PaidCard(payAmount(ps, propertyState, player.id, NoPlayer, card.amount))
    [] card.action = "move" ->
         MoveCard(ps, propertyState, player, normalizePosition(card.target), TRUE)
    [] card.action = "move-relative" ->
         MoveCard(ps, propertyState, player, normalizePosition(player.position + card.offset),
                  card.offset > 0)
    [] card.action = "advance-to-next" ->
         AdvanceCard(ps, propertyState, player, NextTileOffset(player.position, card.tileType))
    [] card.action = "repair" ->
         PaidCard(payAmount(ps, propertyState, player.id, NoPlayer,
                            RepairTotal({t \in DOMAIN propertyState : propertyState[t].ownerId = player.id},
                                        propertyState, card)))
    [] card.action = "get-out-of-jail" ->
         KeptCard(ps, propertyState, [player EXCEPT !.hasGetOutOfJail = TRUE])
    [] card.action = "go-to-jail" -> KeptCard(ps, propertyState, sendPlayerToJail(player))
    [] card.action = "luck-check" ->
         IF luckDoubles THEN KeptCard(ps, propertyState, [player EXCEPT !.funds = @ + card.success])
         ELSE PaidCard(payAmount(ps, propertyState, player.id, NoPlayer, card.failure))
    [] OTHER -> KeptCard(ps, propertyState, player)

-----------------------------------------------------------------------------
(* The store.  The first twelve variables are the fields of the zustand store's GameState.
   The others observe the run: last names the last command issued, its actor and its
   argument; doublesRun is the player who rolled the last doubles and how many doubles that
   player has rolled in a row since the last release from jail; nRolls and nSide count the
   accepted rolls and the commands a player opens at will. *)
VARIABLES players, phase, currentTurnIndex, lastRoll, consecutiveDoubles, propertyState,
          pendingAction, pendingNextTurnIndex, chanceIndex, chestIndex, pendingTrade, winnerId,
          last, doublesRun, nRolls, nSide

gameVars == <<players, phase, currentTurnIndex, lastRoll, consecutiveDoubles, propertyState,
              pendingAction, pendingNextTurnIndex, chanceIndex, chestIndex, pendingTrade, winnerId>>

vars == <<gameVars, last, doublesRun, nRolls, nSide>>

(* The store's state as one object, as the commands receive it *)
State ==
  [players |-> players, phase |-> phase, currentTurnIndex |-> currentTurnIndex,
   lastRoll |-> lastRoll, consecutiveDoubles |-> consecutiveDoubles,
   propertyState |-> propertyState, pendingAction |-> pendingAction,
   pendingNextTurnIndex |-> pendingNextTurnIndex, chanceIndex |-> chanceIndex,
   chestIndex |-> chestIndex, pendingTrade |-> pendingTrade, winnerId |-> winnerId]

-----------------------------------------------------------------------------
(* Turn engine *)
BankruptReturn(s, ps, propState, currentIndex, dieA, dieB) ==
  [s EXCEPT !.players = ps, !.propertyState = propState, !.lastRoll = <<dieA, dieB>>,
            !.currentTurnIndex = IF Len(ps) > 0 THEN currentIndex % Len(ps) ELSE 0,
            !.consecutiveDoubles = 0, !.pendingAction = NoAction, !.pendingNextTurnIndex = NoIndex,
            !.winnerId = computeWinnerId(ps)]

(* What the destination tile did.  removed: the acting player was removed by a payment and
   the roll ends in the bankruptcy return. *)
LandingOutcome(ps, propState, currentIndex, action, nextTurnIndex, stay, doubles, chanceIdx, chestIdx, removed) ==
  [players |-> ps, propertyState |-> propState, currentIndex |-> currentIndex,
   pendingAction |-> action, pendingNextTurnIndex |-> nextTurnIndex,
   stayOnCurrentPlayer |-> stay, consecutiveDoubles |-> doubles,
   chanceIndex |-> chanceIdx, chestIndex |-> chestIdx, removed |-> removed]

PaymentLanding(payment, currentIndex, stay, doubles, chanceIdx, chestIdx) ==
  LandingOutcome(payment.players, payment.propertyState,
                 IF payment.removedIndex # NoIndex /\ payment.removedIndex < currentIndex
                 THEN currentIndex - 1 ELSE currentIndex,
                 NoAction, NoIndex, stay, doubles, chanceIdx, chestIdx,
                 payment.removedIndex # NoIndex /\ payment.removedIndex = currentIndex)

(* the card landing that stores each cursor in the other deck's field *)
CardLanding_CursorsSwapped(result, playerId, currentIndex, stay, doubles, chanceIdx, chestIdx) ==
  LandingOutcome(IF result.followUpPosition # NoIndex
                 THEN [k \in 1..Len(result.players) |->
                         IF result.players[k].id = playerId
                         THEN [result.players[k] EXCEPT !.position = result.followUpPosition]
                         ELSE result.players[k]]
                 ELSE result.players,
                 result.propertyState, currentIndex, NoAction, NoIndex, stay, doubles,
                 chestIdx, chanceIdx, FALSE)

CardLanding(result, playerId, currentIndex, stay, doubles, chanceIdx, chestIdx) ==
  LandingOutcome(IF result.followUpPosition # NoIndex
                 THEN [k \in 1..Len(result.players) |->
                         IF result.players[k].id = playerId
                         THEN [result.players[k] EXCEPT !.position = result.followUpPosition]
                         ELSE result.players[k]]
                 ELSE result.players,
                 result.propertyState, currentIndex, NoAction, NoIndex, stay, doubles,
                 chanceIdx, chestIdx, FALSE)

(* the landing that charges rent on a mortgaged tile too *)
Landing_RentOnMortgaged(ps, propState, activePlayer, currentIndex, diceTotal, stay, doubles, chanceIdx, chestIdx, luckDoubles) ==
  IF TileType(activePlayer.position) \in {"property", "railway", "utility"}
  THEN IF activePlayer.position \in DOMAIN propState /\ propState[activePlayer.position].ownerId = NoPlayer
       THEN LandingOutcome(ps, propState, currentIndex,
                           [type |-> "purchase", tileId |-> activePlayer.position,
                            playerId |-> activePlayer.id, price |-> TilePrice(activePlayer.position),
                            nextLevel |-> 0],
                           IF stay THEN currentIndex ELSE (currentIndex + 1) % Len(ps),
                           stay, doubles, chanceIdx, chestIdx, FALSE)
       ELSE IF activePlayer.position \in DOMAIN propState
               /\ propState[activePlayer.position].ownerId # activePlayer.id
       THEN PaymentLanding(payAmount(ps, propState, activePlayer.id,
                                     propState[activePlayer.position].ownerId,
                                     calculateRent(activePlayer.position, diceTotal, propState,
                                                   propState[activePlayer.position].ownerId)),
                           currentIndex, stay, doubles, chanceIdx, chestIdx)
       ELSE LandingOutcome(ps, propState, currentIndex, NoAction, NoIndex, stay, doubles,
                           chanceIdx, chestIdx, FALSE)
  ELSE IF TileType(activePlayer.position) = "tax"
  THEN PaymentLanding(payAmount(ps, propState, activePlayer.id, NoPlayer, TilePrice(activePlayer.position)),
                      currentIndex, stay, doubles, chanceIdx, chestIdx)
  ELSE IF TileType(activePlayer.position) = "chance"
  THEN CardLanding(handleChanceOrChest(CHANCE_CARDS[(chanceIdx % Len(CHANCE_CARDS)) + 1],
                                       activePlayer, ps, propState, luckDoubles),
                   activePlayer.id, currentIndex, stay, doubles,
                   (chanceIdx + 1) % Len(CHANCE_CARDS), chestIdx)
  ELSE IF TileType(activePlayer.position) = "chest"
  THEN CardLanding(handleChanceOrChest(CHEST_CARDS[(chestIdx % Len(CHEST_CARDS)) + 1],
                                       activePlayer, ps, propState, luckDoubles),
                   activePlayer.id, currentIndex, stay, doubles,
                   chanceIdx, (chestIdx + 1) % Len(CHEST_CARDS))
  ELSE IF TileType(activePlayer.position) = "gotojail"
  THEN LandingOutcome(SetPlayer(ps, activePlayer.id, sendPlayerToJail(activePlayer)), propState,
                      currentIndex, NoAction, NoIndex, FALSE, 0, chanceIdx, chestIdx, FALSE)
  ELSE LandingOutcome(ps, propState, currentIndex, NoAction, NoIndex, stay, doubles,
                      chanceIdx, chestIdx, FALSE)

Landing(ps, propState, activePlayer, currentIndex, diceTotal, stay, doubles, chanceIdx, chestIdx, luckDoubles) ==
  IF TileType(activePlayer.position) \in {"property", "railway", "utility"}
  THEN IF activePlayer.position \in DOMAIN propState /\ propState[activePlayer.position].ownerId = NoPlayer
       THEN LandingOutcome(ps, propState, currentIndex,
                           [type |-> "purchase", tileId |-> activePlayer.position,
                            playerId |-> activePlayer.id, price |-> TilePrice(activePlayer.position),
                            nextLevel |-> 0],
                           IF stay THEN currentIndex ELSE (currentIndex + 1) % Len(ps),
                           stay, doubles, chanceIdx, chestIdx, FALSE)
       ELSE IF activePlayer.position \in DOMAIN propState
               /\ propState[activePlayer.position].ownerId # activePlayer.id
               /\ ~propState[activePlayer.position].mortgaged
       THEN PaymentLanding(payAmount(ps, propState, activePlayer.id,
                                     propState[activePlayer.position].ownerId,
                                     calculateRent(activePlayer.position, diceTotal, propState,
                                                   propState[activePlayer.position].ownerId)),
                           currentIndex, stay, doubles, chanceIdx, chestIdx)
       ELSE LandingOutcome(ps, propState, currentIndex, NoAction, NoIndex, stay, doubles,
                           chanceIdx, chestIdx, FALSE)
  ELSE IF TileType(activePlayer.position) = "tax"
  THEN PaymentLanding(payAmount(ps, propState, activePlayer.id, NoPlayer, TilePrice(activePlayer.position)),
                      currentIndex, stay, doubles, chanceIdx, chestIdx)
  ELSE IF TileType(activePlayer.position) = "chance"
  THEN CardLanding(handleChanceOrChest(CHANCE_CARDS[(chanceIdx % Len(CHANCE_CARDS)) + 1],
                                       activePlayer, ps, propState, luckDoubles),
                   activePlayer.id, currentIndex, stay, doubles,
                   (chanceIdx + 1) % Len(CHANCE_CARDS), chestIdx)
  ELSE IF TileType(activePlayer.position) = "chest"
  THEN CardLanding(handleChanceOrChest(CHEST_CARDS[(chestIdx % Len(CHEST_CARDS)) + 1],
                                       activePlayer, ps, propState, luckDoubles),
                   activePlayer.id, currentIndex, stay, doubles,
                   chanceIdx, (chestIdx + 1) % Len(CHEST_CARDS))
  ELSE IF TileType(activePlayer.position) = "gotojail"
  THEN LandingOutcome(SetPlayer(ps, activePlayer.id, sendPlayerToJail(activePlayer)), propState,
                      currentIndex, NoAction, NoIndex, FALSE, 0, chanceIdx, chestIdx, FALSE)
  ELSE LandingOutcome(ps, propState, currentIndex, NoAction, NoIndex, stay, doubles,
                      chanceIdx, chestIdx, FALSE)

(* The turn index after a roll that neither raised an offer nor ended in a bankruptcy return *)
TurnAfter(currentIndex, stayOnCurrentPlayer, remainingPlayers) ==
  IF remainingPlayers = 0 THEN 0
  ELSE IF stayOnCurrentPlayer THEN currentIndex % remainingPlayers
  ELSE (currentIndex + 1) % remainingPlayers

(* The end of a roll, after the landing *)
FinishRoll(s, land, dieA, dieB) ==
  IF land.removed
  THEN BankruptReturn(s, land.players, land.propertyState, land.currentIndex, dieA, dieB)
  ELSE IF land.pendingAction # NoAction
  THEN [s EXCEPT !.players = land.players, !.propertyState = land.propertyState,
                 !.pendingAction = land.pendingAction,
                 !.pendingNextTurnIndex = land.pendingNextTurnIndex,
                 !.lastRoll = <<dieA, dieB>>,
                 !.consecutiveDoubles = land.consecutiveDoubles,
                 !.chanceIndex = land.chanceIndex, !.chestIndex = land.chestIndex,
                 !.winnerId = computeWinnerId(land.players)]
  ELSE [s EXCEPT !.players = land.players, !.propertyState = land.propertyState,
                 !.pendingAction = NoAction, !.pendingNextTurnIndex = NoIndex,
                 !.lastRoll = <<dieA, dieB>>,
                 !.consecutiveDoubles = IF land.stayOnCurrentPlayer THEN land.consecutiveDoubles ELSE 0,
                 !.currentTurnIndex = TurnAfter(land.currentIndex, land.stayOnCurrentPlayer,
                                                Len(land.players)),
                 !.chanceIndex = land.chanceIndex, !.chestIndex = land.chestIndex,
                 !.phase = IF Len(land.players) <= 1 THEN "summary" ELSE s.phase,
                 !.winnerId = computeWinnerId(land.players)]

(* The dice move of the player at index: position and pass-start bonus *)
MovePlayer(ps, index, diceTotal) ==
  [ps EXCEPT ![index + 1] =
     [applyPassStartBonus(ps[index + 1], ps[index + 1].position,
                          normalizePosition(ps[index + 1].position + diceTotal), diceTotal > 0)
        EXCEPT !.position = normalizePosition(ps[index + 1].position + diceTotal)]]

MoveAndLand(s, ps, propState, index, dieA, dieB, doubles, luckDoubles) ==
  FinishRoll(s, Landing(ps, propState, ps[index + 1], index, dieA + dieB, dieA = dieB, doubles,
                        s.chanceIndex, s.chestIndex, luckDoubles),
             dieA, dieB)

(* The roll after the jail resolver has run *)
AfterJail(s, jailResult, currentIndex, dieA, dieB, doubles, luckDoubles) ==
  IF jailResult.removedIndex # NoIndex /\ jailResult.removedIndex = currentIndex
  THEN BankruptReturn(s, jailResult.players, jailResult.propertyState, currentIndex, dieA, dieB)
  ELSE IF ~jailResult.canMove
  THEN [s EXCEPT !.players = jailResult.players, !.propertyState = jailResult.propertyState,
                 !.lastRoll = <<dieA, dieB>>,
                 !.currentTurnIndex =
                    IF Len(jailResult.players) > 0
                    THEN ((IF jailResult.removedIndex # NoIndex /\ jailResult.removedIndex < currentIndex
                           THEN currentIndex - 1 ELSE currentIndex) + 1) % Len(jailResult.players)
                    ELSE 0,
                 !.consecutiveDoubles = 0, !.pendingAction = NoAction,
                 !.pendingNextTurnIndex = NoIndex,
                 !.winnerId = computeWinnerId(jailResult.players)]
  ELSE MoveAndLand(s,
                   MovePlayer(jailResult.players,
                              IF jailResult.removedIndex # NoIndex /\ jailResult.removedIndex < currentIndex
                              THEN currentIndex - 1 ELSE currentIndex,
                              dieA + dieB),
                   jailResult.propertyState,
                   IF jailResult.removedIndex # NoIndex /\ jailResult.removedIndex < currentIndex
                   THEN currentIndex - 1 ELSE currentIndex,
                   dieA, dieB, doubles, luckDoubles)

RollOf(s, currentIndex, dieA, dieB, doubles, luckDoubles) ==
  IF dieA = dieB /\ doubles >= 3
  THEN [s EXCEPT !.players[currentIndex + 1] = sendPlayerToJail(s.players[currentIndex + 1]),
                 !.lastRoll = <<dieA, dieB>>,
                 !.currentTurnIndex = (currentIndex + 1) % Len(s.players),
                 !.consecutiveDoubles = 0, !.pendingAction = NoAction,
                 !.pendingNextTurnIndex = NoIndex, !.winnerId = computeWinnerId(s.players)]
  ELSE AfterJail(s, resolveJailState(s.players[currentIndex + 1], dieA, dieB, s.players, s.propertyState),
                 currentIndex, dieA, dieB, doubles, luckDoubles)

doRollInternal(s, dieA, dieB, luckDoubles) ==
  RollOf(s, IF s.currentTurnIndex >= Len(s.players) THEN 0 ELSE s.currentTurnIndex,
         dieA, dieB, IF dieA = dieB THEN s.consecutiveDoubles + 1 ELSE 0, luckDoubles)

-----------------------------------------------------------------------------
(* Commands of the store, each a function from the store's state to its next state *)
(* rollDiceAndResolve without the pending-action part of its guard *)
rollDiceAndResolve_NoPendingGuard(s, dieA, dieB, luckDoubles) ==
  IF s.phase # "rolling" \/ Len(s.players) = 0 THEN s
  ELSE doRollInternal(s, dieA, dieB, luckDoubles)

rollDiceAndResolve(s, dieA, dieB, luckDoubles) ==
  IF s.phase # "rolling" \/ Len(s.players) = 0 \/ s.pendingAction # NoAction THEN s
  ELSE doRollInternal(s, dieA, dieB, luckDoubles)

PendingTarget(s, divisor) ==
  IF s.pendingNextTurnIndex # NoIndex THEN s.pendingNextTurnIndex
  ELSE (s.currentTurnIndex + 1) % divisor

Resolved(s, nextIndex) ==
  [s EXCEPT !.pendingAction = NoAction, !.pendingNextTurnIndex = NoIndex,
            !.currentTurnIndex = nextIndex,
            !.consecutiveDoubles = IF nextIndex = s.currentTurnIndex THEN s.consecutiveDoubles ELSE 0]

Cleared(s) == [s EXCEPT !.pendingAction = NoAction, !.pendingNextTurnIndex = NoIndex]

(* confirmPurchase without the check of the buyer's funds *)
confirmPurchase_NoFundsCheck(s) ==
  IF s.pendingAction.type # "purchase" THEN s
  ELSE IF IndexOf(s.players, s.pendingAction.playerId) = NoIndex THEN Cleared(s)
  ELSE Resolved([s EXCEPT !.players = Credit(s.players, s.pendingAction.playerId, -s.pendingAction.price),
                          !.propertyState[s.pendingAction.tileId].ownerId = s.pendingAction.playerId],
                PendingTarget(s, Len(s.players)))

(* confirmPurchase that clears an unaffordable offer without advancing the turn *)
confirmPurchase_NoAdvance(s) ==
  IF s.pendingAction.type # "purchase" THEN s
  ELSE IF IndexOf(s.players, s.pendingAction.playerId) = NoIndex THEN Cleared(s)
  ELSE IF GetFunds(s.players, s.pendingAction.playerId) < s.pendingAction.price THEN Cleared(s)
  ELSE Resolved([s EXCEPT !.players = Credit(s.players, s.pendingAction.playerId, -s.pendingAction.price),
                          !.propertyState[s.pendingAction.tileId].ownerId = s.pendingAction.playerId],
                PendingTarget(s, Len(s.players)))

confirmPurchase(s) ==
  IF s.pendingAction.type # "purchase" THEN s
  ELSE IF IndexOf(s.players, s.pendingAction.playerId) = NoIndex THEN Cleared(s)
  ELSE LET buyer == GetPlayer(s.players, s.pendingAction.playerId)
           tile == s.pendingAction.tileId
       IN IF buyer.funds < s.pendingAction.price
          THEN Resolved(s, PendingTarget(s, Len(s.players)))
          ELSE Resolved([s EXCEPT !.players = Credit(s.players, buyer.id, -s.pendingAction.price),
                                  !.propertyState = IF tile \in DOMAIN s.propertyState
                                                    THEN [s.propertyState EXCEPT ![tile].ownerId = buyer.id]
                                                    ELSE s.propertyState],
                        PendingTarget(s, Len(s.players)))

(* declinePurchase that still hands the tile to the player *)
declinePurchase_TakesTile(s) ==
  IF s.pendingAction.type # "purchase" THEN s
  ELSE Resolved([s EXCEPT !.propertyState[s.pendingAction.tileId].ownerId = s.pendingAction.playerId],
                PendingTarget(s, Max(Len(s.players), 1)))

declinePurchase(s) ==
  IF s.pendingAction.type # "purchase" THEN s
  ELSE Resolved(s, PendingTarget(s, Max(Len(s.players), 1)))

(* requestUpgrade without the full-group precondition *)
requestUpgrade_NoFullSet(s, tileId) ==
  IF s.pendingAction # NoAction \/ s.currentTurnIndex >= Len(s.players) THEN s
  ELSE IF TileType(tileId) # "property" \/ tileId \notin DOMAIN s.propertyState THEN s
  ELSE IF s.propertyState[tileId].ownerId # s.players[s.currentTurnIndex + 1].id
          \/ s.propertyState[tileId].mortgaged
          \/ s.propertyState[tileId].houses >= MAX_UPGRADE_LEVEL THEN s
  ELSE [s EXCEPT !.pendingAction =
                   [type |-> "upgrade", tileId |-> tileId, playerId |-> s.players[s.currentTurnIndex + 1].id,
                    price |-> determineUpgradeCost(tileId, s.propertyState[tileId].houses + 1),
                    nextLevel |-> s.propertyState[tileId].houses + 1],
                 !.pendingNextTurnIndex = s.currentTurnIndex]

requestUpgrade(s, tileId) ==
  IF s.pendingAction # NoAction THEN s
  ELSE IF s.currentTurnIndex >= Len(s.players) THEN s
  ELSE LET activePlayer == s.players[s.currentTurnIndex + 1]
       IN IF TileType(tileId) # "property" \/ TileGroup(tileId) = NoGroup THEN s
          ELSE IF tileId \notin DOMAIN s.propertyState
                  \/ s.propertyState[tileId].ownerId # activePlayer.id THEN s
          ELSE IF s.propertyState[tileId].mortgaged THEN s
          ELSE IF ~ownsFullSet(activePlayer.id, tileId, s.propertyState) THEN s
          ELSE IF s.propertyState[tileId].houses >= MAX_UPGRADE_LEVEL THEN s
          ELSE IF determineUpgradeCost(tileId, s.propertyState[tileId].houses + 1) <= 0 THEN s
          ELSE [s EXCEPT !.pendingAction =
                           [type |-> "upgrade", tileId |-> tileId, playerId |-> activePlayer.id,
                            price |-> determineUpgradeCost(tileId, s.propertyState[tileId].houses + 1),
                            nextLevel |-> s.propertyState[tileId].houses + 1],
                         !.pendingNextTurnIndex = s.currentTurnIndex]

confirmUpgrade(s) ==
  IF s.pendingAction.type # "upgrade" THEN s
  ELSE IF s.pendingAction.tileId \notin DOMAIN s.propertyState THEN s
  ELSE IF IndexOf(s.players, s.pendingAction.playerId) = NoIndex THEN Cleared(s)
  ELSE LET upgrader == GetPlayer(s.players, s.pendingAction.playerId)
       IN IF upgrader.funds < s.pendingAction.price THEN Cleared(s)
          ELSE Cleared([s EXCEPT !.players = Credit(s.players, upgrader.id, -s.pendingAction.price),
                                 !.propertyState[s.pendingAction.tileId].houses = s.pendingAction.nextLevel])

declineUpgrade(s) == Cleared(s)

mortgageProperty_EndsTurn(s, tileId) ==
  IF s.currentTurnIndex >= Len(s.players) THEN s
  ELSE LET activePlayer == s.players[s.currentTurnIndex + 1]
       IN IF tileId \notin DOMAIN s.propertyState
             \/ s.propertyState[tileId].ownerId # activePlayer.id THEN s
          ELSE IF s.propertyState[tileId].mortgaged \/ s.propertyState[tileId].houses > 0 THEN s
          ELSE IF getMortgageValue(tileId) <= 0 THEN s
          ELSE [s EXCEPT !.players[s.currentTurnIndex + 1].funds = @ + getMortgageValue(tileId),
                         !.propertyState[tileId].mortgaged = TRUE,
                         !.currentTurnIndex = (s.currentTurnIndex + 1) % Len(s.players),
                         !.consecutiveDoubles = 0]

mortgageProperty_NoLevelCheck(s, tileId) ==
  IF s.currentTurnIndex >= Len(s.players) THEN s
  ELSE LET activePlayer == s.players[s.currentTurnIndex + 1]
       IN IF tileId \notin DOMAIN s.propertyState
             \/ s.propertyState[tileId].ownerId # activePlayer.id THEN s
          ELSE IF s.propertyState[tileId].mortgaged THEN s
          ELSE IF getMortgageValue(tileId) <= 0 THEN s
          ELSE [s EXCEPT !.players[s.currentTurnIndex + 1].funds = @ + getMortgageValue(tileId),
                         !.propertyState[tileId].mortgaged = TRUE]

mortgageProperty(s, tileId) ==
  IF s.currentTurnIndex >= Len(s.players) THEN s
  ELSE LET activePlayer == s.players[s.currentTurnIndex + 1]
       IN IF tileId \notin DOMAIN s.propertyState
             \/ s.propertyState[tileId].ownerId # activePlayer.id THEN s
          ELSE IF s.propertyState[tileId].mortgaged \/ s.propertyState[tileId].houses > 0 THEN s
          ELSE IF getMortgageValue(tileId) <= 0 THEN s
          ELSE [s EXCEPT !.players[s.currentTurnIndex + 1].funds = @ + getMortgageValue(tileId),
                         !.propertyState[tileId].mortgaged = TRUE]

(* Math.ceil(value * 1.1) in IEEE double arithmetic: for these values (of 0..400) the product
   lies just above the exact one and the ceiling is one more than the exact ceiling *)
InexactTimes11 == {50, 90, 100, 110, 170, 180, 190, 200, 210, 220, 230,
                   330, 340, 350, 360, 370, 380, 390, 400}

CeilTimes11(value) ==
  ((11 * value + 9) \div 10) + (IF value \in InexactTimes11 THEN 1 ELSE 0)

redeemProperty(s, tileId) ==
  IF s.currentTurnIndex >= Len(s.players) THEN s
  ELSE LET activePlayer == s.players[s.currentTurnIndex + 1]
           cost == CeilTimes11(getMortgageValue(tileId))
       IN IF tileId \notin DOMAIN s.propertyState
             \/ s.propertyState[tileId].ownerId # activePlayer.id
             \/ ~s.propertyState[tileId].mortgaged THEN s
          ELSE IF activePlayer.funds < cost THEN s
          ELSE [s EXCEPT !.players[s.currentTurnIndex + 1].funds = @ - cost,
                         !.propertyState[tileId].mortgaged = FALSE]

claimPledgeFrom(s, fromPlayerId, tileId) ==
  IF s.currentTurnIndex >= Len(s.players) THEN s
  ELSE LET activePlayer == s.players[s.currentTurnIndex + 1]
       IN IF activePlayer.id = fromPlayerId THEN s
          ELSE IF tileId \notin DOMAIN s.propertyState
                  \/ s.propertyState[tileId].ownerId # fromPlayerId THEN s
          ELSE [s EXCEPT !.propertyState[tileId].ownerId = activePlayer.id]

(* sendTradeProposal that replaces an outstanding proposal *)
sendTradeProposal_Overwrite(s, payload) ==
  IF payload.fromId \notin PlayerIds(s.players) \/ payload.toId \notin PlayerIds(s.players)
     \/ payload.fromId = payload.toId THEN s
  ELSE LET giveCash == Max(0, payload.giveCash)
           receiveCash == Max(0, payload.receiveCash)
           giveTiles == {t \in payload.giveTiles :
                           t \in DOMAIN s.propertyState /\ s.propertyState[t].ownerId = payload.fromId}
           receiveTiles == {t \in payload.receiveTiles :
                              t \in DOMAIN s.propertyState /\ s.propertyState[t].ownerId = payload.toId}
       IN IF giveCash = 0 /\ receiveCash = 0 /\ giveTiles = {} /\ receiveTiles = {} THEN s
          ELSE IF GetFunds(s.players, payload.fromId) < giveCash
                  \/ GetFunds(s.players, payload.toId) < receiveCash THEN s
          ELSE [s EXCEPT !.pendingTrade =
                           [fromId |-> payload.fromId, toId |-> payload.toId, giveCash |-> giveCash,
                            receiveCash |-> receiveCash, giveTiles |-> giveTiles,
                            receiveTiles |-> receiveTiles]]

sendTradeProposal(s, payload) ==
  IF s.pendingTrade # NoTrade THEN s
  ELSE IF payload.fromId \notin PlayerIds(s.players) \/ payload.toId \notin PlayerIds(s.players)
          \/ payload.fromId = payload.toId THEN s
  ELSE LET fromPlayer == GetPlayer(s.players, payload.fromId)
           toPlayer == GetPlayer(s.players, payload.toId)
           giveCash == Max(0, payload.giveCash)
           receiveCash == Max(0, payload.receiveCash)
           giveTiles == {t \in payload.giveTiles :
                           t \in DOMAIN s.propertyState /\ s.propertyState[t].ownerId = fromPlayer.id}
           receiveTiles == {t \in payload.receiveTiles :
                              t \in DOMAIN s.propertyState /\ s.propertyState[t].ownerId = toPlayer.id}
       IN IF giveCash = 0 /\ receiveCash = 0 /\ giveTiles = {} /\ receiveTiles = {} THEN s
          ELSE IF fromPlayer.funds < giveCash \/ toPlayer.funds < receiveCash THEN s
          ELSE [s EXCEPT !.pendingTrade =
                           [fromId |-> fromPlayer.id, toId |-> toPlayer.id, giveCash |-> giveCash,
                            receiveCash |-> receiveCash, giveTiles |-> giveTiles,
                            receiveTiles |-> receiveTiles]]

(* acceptTradeProposal that trusts the checks made when the proposal was sent *)
acceptTradeProposal_NoRevalidation(s) ==
  LET trade == s.pendingTrade
  IN IF trade = NoTrade THEN s
     ELSE IF IndexOf(s.players, trade.fromId) = NoIndex \/ IndexOf(s.players, trade.toId) = NoIndex
     THEN [s EXCEPT !.pendingTrade = NoTrade]
     ELSE [s EXCEPT
             !.players = Credit(Credit(s.players, trade.fromId, trade.receiveCash - trade.giveCash),
                                trade.toId, trade.giveCash - trade.receiveCash),
             !.propertyState =
                [t \in DOMAIN s.propertyState |->
                   IF t \in trade.giveTiles /\ s.propertyState[t].ownerId = trade.fromId
                   THEN [s.propertyState[t] EXCEPT !.ownerId = trade.toId]
                   ELSE IF t \in trade.receiveTiles /\ s.propertyState[t].ownerId = trade.toId
                   THEN [s.propertyState[t] EXCEPT !.ownerId = trade.fromId]
                   ELSE s.propertyState[t]],
             !.pendingTrade = NoTrade]

acceptTradeProposal(s) ==
  LET trade == s.pendingTrade
  IN IF trade = NoTrade THEN s
     ELSE IF IndexOf(s.players, trade.fromId) = NoIndex \/ IndexOf(s.players, trade.toId) = NoIndex
     THEN [s EXCEPT !.pendingTrade = NoTrade]
     ELSE LET fromPlayer == GetPlayer(s.players, trade.fromId)
              toPlayer == GetPlayer(s.players, trade.toId)
              validateTiles(ids, ownerId) ==
                \A t \in ids : t \in DOMAIN s.propertyState /\ s.propertyState[t].ownerId = ownerId
          IN IF fromPlayer.funds < trade.giveCash \/ toPlayer.funds < trade.receiveCash
             THEN [s EXCEPT !.pendingTrade = NoTrade]
             ELSE IF ~validateTiles(trade.giveTiles, fromPlayer.id)
                     \/ ~validateTiles(trade.receiveTiles, toPlayer.id)
             THEN [s EXCEPT !.pendingTrade = NoTrade]
             ELSE [s EXCEPT
                     !.players = Credit(Credit(s.players, fromPlayer.id, trade.receiveCash - trade.giveCash),
                                        toPlayer.id, trade.giveCash - trade.receiveCash),
                     !.propertyState =
                        [t \in DOMAIN s.propertyState |->
                           IF t \in trade.giveTiles
                           THEN [s.propertyState[t] EXCEPT !.ownerId = toPlayer.id]
                           ELSE IF t \in trade.receiveTiles
                           THEN [s.propertyState[t] EXCEPT !.ownerId = fromPlayer.id]
                           ELSE s.propertyState[t]],
                     !.pendingTrade = NoTrade]

rejectTradeProposal(s, initiatorId) ==
  IF s.pendingTrade = NoTrade THEN s ELSE [s EXCEPT !.pendingTrade = NoTrade]

(* leaveJailByPayment that releases the player without resetting jailTurns *)
leaveJailByPayment_KeepsTurns(s, playerId) ==
  IF IndexOf(s.players, playerId) = NoIndex THEN s
  ELSE IF ~GetPlayer(s.players, playerId).inJail THEN s
  ELSE LET result == payAmount(s.players, s.propertyState, playerId, NoPlayer, JAIL_FINE)
       IN IF result.bankruptPlayerId = playerId
          THEN [s EXCEPT !.players = result.players, !.propertyState = result.propertyState,
                         !.currentTurnIndex = IF Len(result.players) > 0
                                              THEN s.currentTurnIndex % Len(result.players) ELSE 0]
          ELSE [s EXCEPT !.players = SetPlayer(result.players, playerId,
                                       [GetPlayer(result.players, playerId) EXCEPT !.inJail = FALSE]),
                         !.propertyState = result.propertyState]

leaveJailByPayment(s, playerId) ==
  IF IndexOf(s.players, playerId) = NoIndex THEN s
  ELSE IF ~GetPlayer(s.players, playerId).inJail THEN s
  ELSE LET result == payAmount(s.players, s.propertyState, playerId, NoPlayer, JAIL_FINE)
       IN IF result.bankruptPlayerId = playerId
          THEN [s EXCEPT !.players = result.players, !.propertyState = result.propertyState,
                         !.currentTurnIndex = IF Len(result.players) > 0
                                              THEN s.currentTurnIndex % Len(result.players) ELSE 0]
          ELSE [s EXCEPT !.players = SetPlayer(result.players, playerId,
                                       [GetPlayer(result.players, playerId)
                                          EXCEPT !.inJail = FALSE, !.jailTurns = 0]),
                         !.propertyState = result.propertyState]

useJailCard(s, playerId) ==
  IF IndexOf(s.players, playerId) = NoIndex THEN s
  ELSE LET player == GetPlayer(s.players, playerId)
       IN IF ~player.inJail \/ ~player.hasGetOutOfJail THEN s
          ELSE [s EXCEPT !.players = SetPlayer(s.players, playerId,
                           [player EXCEPT !.hasGetOutOfJail = FALSE, !.inJail = FALSE, !.jailTurns = 0])]

setPlayers(s, n) ==
  [s EXCEPT !.players = [k \in 1..n |-> [id |-> k, funds |-> START_FUNDS, position |-> START_INDEX,
                                          inJail |-> FALSE, jailTurns |-> 0, hasGetOutOfJail |-> FALSE]],
            !.phase = "rolling", !.currentTurnIndex = 0, !.consecutiveDoubles = 0,
            !.propertyState = createPropertyState, !.pendingAction = NoAction,
            !.pendingNextTurnIndex = NoIndex, !.lastRoll = <<1, 1>>,
            !.chanceIndex = 0, !.chestIndex = 0]

-----------------------------------------------------------------------------
(* The state machine: the commands the screens issue, with their inputs *)

(* Cash a trade offers: nothing or all but 5 of the sender's funds; cash it asks for: nothing or 100 *)
GiveOffers(funds) == {0} \cup {c \in {funds - 5} : c > 0}
ReceiveOffers == {0, 100}

Dice == {d \in (1..MaxDie) \X (1..MaxDie) : d[1] <= d[2]}

(* The player a roll acts for: doRollInternal reads index 0 when the turn index is past the end *)
ActiveId(s) ==
  IF Len(s.players) = 0 THEN NoPlayer
  ELSE IF s.currentTurnIndex >= Len(s.players) THEN s.players[1].id
  ELSE s.players[s.currentTurnIndex + 1].id

(* Tiles a command is issued for: the owned ones and the ones a player stands on *)
TileInputs ==
  {t \in OwnableTiles : propertyState[t].ownerId # NoPlayer}
  \cup {t \in OwnableTiles : \E k \in 1..Len(players) : players[k].position = t}

(* Tile sets of a trade: at most one tile of the offering party *)
TileSetInputs(ownerId) ==
  {{}} \cup {{t} : t \in {u \in OwnableTiles : propertyState[u].ownerId = ownerId}}

Command(op, actor, arg) == [op |-> op, actor |-> actor, arg |-> arg]

NoRun == [id |-> NoPlayer, n |-> 0]

(* doublesRun after an accepted roll of the player actor, who was jailed or not before it
   and is released or not by it: a release starts the count again, three doubles end it *)
RunAfterRoll(run, actor, dieA, dieB, released) ==
  IF dieA # dieB THEN NoRun
  ELSE IF released THEN [id |-> actor, n |-> 0]
  ELSE IF run.id = actor /\ run.n + 1 >= 3 THEN NoRun
  ELSE [id |-> actor, n |-> IF run.id = actor THEN run.n + 1 ELSE 1]

(* doublesRun after a command other than a roll: paying the fine or using the card releases *)
RunAfterCommand(run, cmd) ==
  IF cmd.op \in {"payJailFine", "useJailReleaseCard"} /\ cmd.actor = run.id THEN NoRun ELSE run

Do(new, cmd) ==
  /\ players' = new.players
  /\ phase' = new.phase
  /\ currentTurnIndex' = new.currentTurnIndex
  /\ lastRoll' = new.lastRoll
  /\ consecutiveDoubles' = new.consecutiveDoubles
  /\ propertyState' = new.propertyState
  /\ pendingAction' = new.pendingAction
  /\ pendingNextTurnIndex' = new.pendingNextTurnIndex
  /\ chanceIndex' = new.chanceIndex
  /\ chestIndex' = new.chestIndex
  /\ pendingTrade' = new.pendingTrade
  /\ winnerId' = new.winnerId
  /\ last' = cmd

(* A command other than a roll is a step when the code does not return the state as it is *)
Step(new, cmd) ==
  /\ phase # "lobby"
  /\ new # State
  /\ Do(new, cmd)
  /\ doublesRun' = RunAfterCommand(doublesRun, cmd)

(* A command that settles what is pending *)
Settle(new, cmd) ==
  /\ Step(new, cmd)
  /\ UNCHANGED <<nRolls, nSide>>

(* A command that a player opens at will *)
Side(new, cmd) ==
  /\ nSide < MaxSide
  /\ Step(new, cmd)
  /\ nSide' = nSide + 1
  /\ UNCHANGED nRolls

Init ==
  /\ players = <<>>
  /\ phase = "lobby"
  /\ currentTurnIndex = 0
  /\ lastRoll = <<1, 1>>
  /\ consecutiveDoubles = 0
  /\ propertyState = createPropertyState
  /\ pendingAction = NoAction
  /\ pendingNextTurnIndex = NoIndex
  /\ chanceIndex = 0
  /\ chestIndex = 0
  /\ pendingTrade = NoTrade
  /\ winnerId = NoPlayer
  /\ last = Command("init", NoPlayer, NoTile)
  /\ doublesRun = NoRun
  /\ nRolls = 0
  /\ nSide = 0

Setup(n) ==
  /\ phase = "lobby"
  /\ Do(setPlayers(State, n), Command("setPlayers", NoPlayer, n))
  /\ UNCHANGED <<doublesRun, nRolls, nSide>>

SetPlayers == \E n \in MIN_PLAYERS..MaxPlayers : Setup(n)

(* Whether the store accepts a roll *)
Accepts(s) == s.phase = "rolling" /\ Len(s.players) > 0 /\ s.pendingAction = NoAction

(* Whether the player id is in the list and in jail *)
Jailed(ps, id) == \E k \in 1..Len(ps) : ps[k].id = id /\ ps[k].inJail

(* A roll command, at most limit accepted ones; a refused one leaves the store as it is.
   The argument recorded is the dice total, or 0 for a refused roll. *)
RollWithin(limit) ==
  \E d \in Dice, luckDoubles \in BOOLEAN :
    IF Accepts(State)
    THEN /\ nRolls < limit
         /\ Do(rollDiceAndResolve(State, d[1], d[2], luckDoubles),
               Command("roll", ActiveId(State), d[1] + d[2]))
         /\ doublesRun' = RunAfterRoll(doublesRun, ActiveId(State), d[1], d[2],
                                       Jailed(players, ActiveId(State))
                                       /\ ~Jailed(players', ActiveId(State)))
         /\ nRolls' = nRolls + 1
         /\ UNCHANGED nSide
    ELSE /\ Do(rollDiceAndResolve(State, d[1], d[2], luckDoubles),
               Command("roll", ActiveId(State), 0))
         /\ UNCHANGED <<doublesRun, nRolls, nSide>>

Roll == RollWithin(MaxRolls)

ConfirmPurchase ==
  /\ pendingAction.type = "purchase"
  /\ Do(confirmPurchase(State), Command("confirmPurchase", pendingAction.playerId, pendingAction.tileId))
  /\ UNCHANGED <<doublesRun, nRolls, nSide>>

DeclinePurchase ==
  /\ pendingAction.type = "purchase"
  /\ Do(declinePurchase(State), Command("declinePurchase", pendingAction.playerId, pendingAction.tileId))
  /\ UNCHANGED <<doublesRun, nRolls, nSide>>

RequestUpgrade ==
  \E t \in TileInputs : Side(requestUpgrade(State, t), Command("requestUpgrade", ActiveId(State), t))

ConfirmUpgrade ==
  /\ pendingAction.type = "upgrade"
  /\ Settle(confirmUpgrade(State), Command("confirmUpgrade", pendingAction.playerId, pendingAction.tileId))

DeclineUpgrade ==
  IF pendingAction.type = "upgrade"
  THEN Settle(declineUpgrade(State), Command("declineUpgrade", pendingAction.playerId, pendingAction.tileId))
  ELSE Side(declineUpgrade(State), Command("declineUpgrade", pendingAction.playerId, pendingAction.tileId))

Mortgage ==
  \E t \in TileInputs : Side(mortgageProperty(State, t), Command("mortgage", ActiveId(State), t))

Redeem ==
  \E t \in TileInputs : Settle(redeemProperty(State, t), Command("redeem", ActiveId(State), t))

ClaimPledge ==
  \E from \in PlayerIds(players), t \in TileInputs :
    Side(claimPledgeFrom(State, from, t), Command("claimPledgeFrom", from, t))

ProposeTrade ==
  \E from \in PlayerIds(players), to \in PlayerIds(players) :
    \E give \in GiveOffers(GetPlayer(players, from).funds), receive \in ReceiveOffers,
       giveTiles \in TileSetInputs(from), receiveTiles \in TileSetInputs(to) :
      Side(sendTradeProposal(State, [fromId |-> from, toId |-> to, giveCash |-> give,
                                     receiveCash |-> receive, giveTiles |-> giveTiles,
                                     receiveTiles |-> receiveTiles]),
           Command("proposeTrade", from, to))

AcceptTrade ==
  /\ pendingTrade # NoTrade
  /\ Settle(acceptTradeProposal(State), Command("acceptTrade", pendingTrade.toId, pendingTrade))

RejectTrade ==
  \E actor \in PlayerIds(players) :
    Settle(rejectTradeProposal(State, actor), Command("rejectTrade", actor, NoTile))

PayJailFine ==
  \E p \in PlayerIds(players) : Settle(leaveJailByPayment(State, p), Command("payJailFine", p, NoTile))

UseJailReleaseCard ==
  \E p \in PlayerIds(players) : Settle(useJailCard(State, p), Command("useJailReleaseCard", p, NoTile))

Next ==
  \/ SetPlayers
  \/ Roll
  \/ ConfirmPurchase
  \/ DeclinePurchase
  \/ RequestUpgrade
  \/ ConfirmUpgrade
  \/ DeclineUpgrade
  \/ Mortgage
  \/ Redeem
  \/ ClaimPledge
  \/ ProposeTrade
  \/ AcceptTrade
  \/ RejectTrade
  \/ PayJailFine
  \/ UseJailReleaseCard

Spec == Init /\ [][Next]_vars

-----------------------------------------------------------------------------
(* A long two-player game: rolls, purchase decisions and the jail fine only *)
Duel == Setup(MIN_PLAYERS)

LongRoll == RollWithin(MaxLongRolls)

NextLong ==
  \/ Duel
  \/ LongRoll
  \/ ConfirmPurchase
  \/ DeclinePurchase
  \/ PayJailFine

SpecLong == Init /\ [][NextLong]_vars

-----------------------------------------------------------------------------
(* The ledger primitives on their own: payAmount and handleBankruptcy applied to player
   lists and ownership tables drawn from small sets *)
LedgerFunds == {0, 20}
LedgerAmounts == {0, 10, 20, 50}
LedgerTiles == {4, 11}

LedgerPlayers(n) ==
  { [k \in 1..n |-> [id |-> k, funds |-> f[k], position |-> START_INDEX, inJail |-> FALSE,
                     jailTurns |-> 0, hasGetOutOfJail |-> FALSE]] : f \in [1..n -> LedgerFunds] }

(* an owned standard property is developed, an owned railway is mortgaged *)
LedgerProperties(n) ==
  { [t \in OwnableTiles |->
       IF t \in LedgerTiles /\ o[t] # NoPlayer
       THEN [ownerId |-> o[t], houses |-> IF t \in PropertyTiles THEN 2 ELSE 0,
             mortgaged |-> t \notin PropertyTiles]
       ELSE [ownerId |-> NoPlayer, houses |-> 0, mortgaged |-> FALSE]] : o \in [LedgerTiles -> 0..n] }

InitLedger ==
  /\ \E n \in MIN_PLAYERS..MaxPlayers :
       /\ players \in LedgerPlayers(n)
       /\ propertyState \in LedgerProperties(n)
  /\ phase = "rolling"
  /\ currentTurnIndex = 0
  /\ lastRoll = <<1, 1>>
  /\ consecutiveDoubles = 0
  /\ pendingAction = NoAction
  /\ pendingNextTurnIndex = NoIndex
  /\ chanceIndex = 0
  /\ chestIndex = 0
  /\ pendingTrade = NoTrade
  /\ winnerId = NoPlayer
  /\ last = Command("init", NoPlayer, NoTile)
  /\ doublesRun = NoRun
  /\ nRolls = 0
  /\ nSide = 0

Ledger(outcome, cmd) ==
  /\ nSide < MaxSide
  /\ players' = outcome.players
  /\ propertyState' = outcome.propertyState
  /\ last' = cmd
  /\ nSide' = nSide + 1
  /\ UNCHANGED <<phase, currentTurnIndex, lastRoll, consecutiveDoubles, pendingAction,
                 pendingNextTurnIndex, chanceIndex, chestIndex, pendingTrade, winnerId,
                 doublesRun, nRolls>>

(* payAmount from a player to another player or to the bank (NoPlayer) *)
LedgerPay ==
  \E payer \in PlayerIds(players), amount \in LedgerAmounts :
    \E receiver \in (PlayerIds(players) \ {payer}) \cup {NoPlayer} :
      Ledger(payAmount(players, propertyState, payer, receiver, amount),
             Command("pay", payer, <<receiver, amount>>))

(* handleBankruptcy of a player, with another player or the bank (NoPlayer) as creditor *)
LedgerBankrupt ==
  \E bankrupt \in PlayerIds(players) :
    \E creditor \in (PlayerIds(players) \ {bankrupt}) \cup {NoPlayer} :
      Ledger(handleBankruptcy(players, propertyState, bankrupt, creditor),
             Command("bankrupt", bankrupt, creditor))

NextLedger ==
  \/ LedgerPay
  \/ LedgerBankrupt

SpecLedger == InitLedger /\ [][NextLedger]_vars

(* The player after id in the turn order of the list ps *)
FollowerOf(ps, id) == ps[((IndexOf(ps, id) + 1) % Len(ps)) + 1].id

(* The player the turn index designates, NoPlayer when it designates none *)
TurnHolder(ps, index) == IF index >= 0 /\ index < Len(ps) THEN ps[index + 1].id ELSE NoPlayer

-----------------------------------------------------------------------------
(* The estate commands on their own: a position in the middle of a game between two
   players, drawn from small sets, and the commands a player issues between rolls.  A
   command the store refuses is a step too: it is recorded in last and changes nothing
   else.  At most MaxDesk commands are opened; confirming an upgrade and accepting a
   trade settle what is pending and are not counted. *)
DeskTiles == {4, 6, 11}
DeskLevels == {0, 4, 5}

(* tile 4 is developed or not, tile 6 is mortgaged or not, the railway is plain *)
DeskProperties ==
  { [t \in OwnableTiles |->
       IF t \in DeskTiles /\ o[t] # NoPlayer
       THEN [ownerId |-> o[t], houses |-> IF t = 4 THEN h ELSE 0, mortgaged |-> t = 6 /\ m]
       ELSE [ownerId |-> NoPlayer, houses |-> 0, mortgaged |-> FALSE]] :
    o \in [DeskTiles -> 0..MIN_PLAYERS], h \in DeskLevels, m \in BOOLEAN }

InitDesk ==
  /\ players = [k \in 1..MIN_PLAYERS |->
                  [id |-> k, funds |-> START_FUNDS, position |-> START_INDEX, inJail |-> FALSE,
                   jailTurns |-> 0, hasGetOutOfJail |-> FALSE]]
  /\ propertyState \in DeskProperties
  /\ phase = "rolling"
  /\ currentTurnIndex \in 0..(MIN_PLAYERS - 1)
  /\ lastRoll = <<1, 1>>
  /\ consecutiveDoubles = 0
  /\ pendingAction = NoAction
  /\ pendingNextTurnIndex = NoIndex
  /\ chanceIndex = 0
  /\ chestIndex = 0
  /\ pendingTrade = NoTrade
  /\ winnerId = NoPlayer
  /\ last = Command("init", NoPlayer, NoTile)
  /\ doublesRun = NoRun
  /\ nRolls = 0
  /\ nSide = 0

Desk(new, cmd) ==
  /\ nSide < MaxDesk
  /\ Do(new, cmd)
  /\ nSide' = nSide + 1
  /\ UNCHANGED <<doublesRun, nRolls>>

DeskRequestUpgrade ==
  \E t \in DeskTiles \cap DOMAIN propertyState :
    Desk(requestUpgrade(State, t), Command("requestUpgrade", TurnHolder(players, currentTurnIndex), t))

DeskMortgage ==
  \E t \in DeskTiles \cap DOMAIN propertyState :
    Desk(mortgageProperty(State, t), Command("mortgage", TurnHolder(players, currentTurnIndex), t))

DeskRedeem ==
  \E t \in DeskTiles \cap DOMAIN propertyState :
    Desk(redeemProperty(State, t), Command("redeem", TurnHolder(players, currentTurnIndex), t))

DeskClaimPledge ==
  \E from \in PlayerIds(players), t \in DeskTiles :
    Desk(claimPledgeFrom(State, from, t), Command("claimPledgeFrom", from, t))

(* a proposal that gives away at most one tile for nothing *)
DeskProposeTrade ==
  \E from \in PlayerIds(players), to \in PlayerIds(players) :
    \E giveTiles \in TileSetInputs(from) :
    Desk(sendTradeProposal(State, [fromId |-> from, toId |-> to, giveCash |-> 0, receiveCash |-> 0,
                                   giveTiles |-> giveTiles, receiveTiles |-> {}]),
         Command("proposeTrade", from, to))

NextDesk ==
  \/ DeskRequestUpgrade
  \/ DeskMortgage
  \/ DeskRedeem
  \/ DeskClaimPledge
  \/ DeskProposeTrade
  \/ ConfirmUpgrade
  \/ AcceptTrade

SpecDesk == InitDesk /\ [][NextDesk]_vars

-----------------------------------------------------------------------------
(* The trade commands alone, with every payload the command surface accepts: party ids that
   name no player, cash beyond a party's funds, tiles of any owner.  A refused proposal is a
   step too. *)
TradeTiles == {4, 11}
TradeAskedTiles == {4}
TradeParties == 1..(MIN_PLAYERS + 1)
TradeCash == {<<0, 0>>, <<100, 0>>, <<0, 100>>, <<START_FUNDS + 100, 0>>, <<0, START_FUNDS + 100>>}

TradeOffers ==
  { [fromId |-> from, toId |-> to, giveCash |-> cash[1], receiveCash |-> cash[2],
     giveTiles |-> giveTiles, receiveTiles |-> receiveTiles] :
      from \in TradeParties, to \in TradeParties, cash \in TradeCash,
      giveTiles \in SUBSET TradeTiles, receiveTiles \in SUBSET TradeAskedTiles }

TradeProperties ==
  { [t \in OwnableTiles |->
       [ownerId |-> IF t \in TradeTiles THEN o[t] ELSE NoPlayer, houses |-> 0, mortgaged |-> FALSE]] :
      o \in [TradeTiles -> 0..MIN_PLAYERS] }

(* The proposal that may be outstanding at the start: the first player offers 100 *)
TradeOutstanding ==
  [fromId |-> 1, toId |-> 2, giveCash |-> 100, receiveCash |-> 0, giveTiles |-> {}, receiveTiles |-> {}]

InitTrade ==
  /\ players = [k \in 1..MIN_PLAYERS |->
                  [id |-> k, funds |-> START_FUNDS, position |-> START_INDEX, inJail |-> FALSE,
                   jailTurns |-> 0, hasGetOutOfJail |-> FALSE]]
  /\ propertyState \in TradeProperties
  /\ phase = "rolling"
  /\ currentTurnIndex = 0
  /\ lastRoll = <<1, 1>>
  /\ consecutiveDoubles = 0
  /\ pendingAction = NoAction
  /\ pendingNextTurnIndex = NoIndex
  /\ chanceIndex = 0
  /\ chestIndex = 0
  /\ pendingTrade \in {NoTrade, TradeOutstanding}
  /\ winnerId = NoPlayer
  /\ last = Command("init", NoPlayer, NoTile)
  /\ doublesRun = NoRun
  /\ nRolls = 0
  /\ nSide = 0

TradePropose ==
  \E offer \in TradeOffers :
    /\ nSide < MaxProposals
    /\ Do(sendTradeProposal(State, offer), Command("proposeTrade", offer.fromId, offer))
    /\ nSide' = nSide + 1
    /\ UNCHANGED <<doublesRun, nRolls>>

NextTrade ==
  \/ TradePropose
  \/ AcceptTrade
  \/ RejectTrade

SpecTrade == InitTrade /\ [][NextTrade]_vars

-----------------------------------------------------------------------------
(* A two-player game from the moment the first player, holding the turn, has been jailed:
   with or without a release card, rich or poor, and either at the start of a turn or in
   the middle of a doubles streak (a go-to-jail card drawn on the second doubles leaves the
   turn and the streak with the jailed player) *)
JailFunds == {START_FUNDS, JAIL_FINE, START_FUNDS - HeavyTax}
JailStreaks == {0, 2}

InitJail ==
  /\ \E f \in JailFunds, c \in BOOLEAN :
       players = << [id |-> 1, funds |-> f, position |-> JAIL_INDEX, inJail |-> TRUE,
                     jailTurns |-> 0, hasGetOutOfJail |-> c],
                    [id |-> 2, funds |-> START_FUNDS, position |-> START_INDEX, inJail |-> FALSE,
                     jailTurns |-> 0, hasGetOutOfJail |-> FALSE] >>
  /\ propertyState = createPropertyState
  /\ phase = "rolling"
  /\ currentTurnIndex = 0
  /\ lastRoll = <<1, 1>>
  /\ consecutiveDoubles \in JailStreaks
  /\ pendingAction = NoAction
  /\ pendingNextTurnIndex = NoIndex
  /\ chanceIndex = 0
  /\ chestIndex = 0
  /\ pendingTrade = NoTrade
  /\ winnerId = NoPlayer
  /\ last = Command("init", NoPlayer, NoTile)
  /\ doublesRun = IF consecutiveDoubles = 0 THEN NoRun ELSE [id |-> 1, n |-> consecutiveDoubles]
  /\ nRolls = 0
  /\ nSide = 0

JailRoll == RollWithin(MaxJailRolls)

NextJail ==
  \/ JailRoll
  \/ ConfirmPurchase
  \/ DeclinePurchase
  \/ PayJailFine
  \/ UseJailReleaseCard

SpecJail == InitJail /\ [][NextJail]_vars

-----------------------------------------------------------------------------
(* One roll from the middle of a two-player game.  The first player holds the turn and
   stands 2 to 4 cells before the tiles of interest; the tiles the roll can reach are
   unowned, owned by either player, developed or mortgaged; the deck cursors are anywhere. *)
BoardStarts == {1, 8, 10, 11, 38}
BoardFunds == {START_FUNDS, 30}
BoardLevels == {0, 2, MAX_UPGRADE_LEVEL}

Holding(ownerId, houses, mortgaged) == [ownerId |-> ownerId, houses |-> houses, mortgaged |-> mortgaged]

TileStates(levels) ==
  {Holding(NoPlayer, 0, FALSE)}
  \cup {Holding(o, h, FALSE) : o \in 1..MIN_PLAYERS, h \in levels}
  \cup {Holding(o, 0, TRUE) : o \in 1..MIN_PLAYERS}

(* The ownership tables for a start cell: the colour group {4, 6} after cell 1, two
   railways after cell 8, the two utilities after cells 10 and 11 *)
BoardScenes(start) ==
  IF start = 1
  THEN {[createPropertyState EXCEPT ![4] = a, ![6] = b] : a \in TileStates(BoardLevels), b \in TileStates({0})}
  ELSE IF start = 8
  THEN {[createPropertyState EXCEPT ![11] = a, ![16] = b] : a \in TileStates({0}), b \in TileStates({0})}
  ELSE IF start \in {10, 11}
  THEN {[createPropertyState EXCEPT ![13] = a, ![28] = b] : a \in TileStates({0}), b \in TileStates({0})}
  ELSE {createPropertyState}

(* The cursor values for a start cell: any card of a deck of n cards after cell 1, where
   the roll can reach a card tile *)
BoardCursors(start, n) == IF start = 1 THEN 0..(n - 1) ELSE {0}

InitBoard ==
  /\ \E start \in BoardStarts :
       /\ \E f \in BoardFunds :
            players = << [id |-> 1, funds |-> f, position |-> start, inJail |-> FALSE,
                          jailTurns |-> 0, hasGetOutOfJail |-> FALSE],
                         [id |-> 2, funds |-> START_FUNDS, position |-> START_INDEX, inJail |-> FALSE,
                          jailTurns |-> 0, hasGetOutOfJail |-> FALSE] >>
       /\ propertyState \in BoardScenes(start)
       /\ chanceIndex \in BoardCursors(start, Len(CHANCE_CARDS))
       /\ chestIndex \in BoardCursors(start, Len(CHEST_CARDS))
  /\ phase = "rolling"
  /\ currentTurnIndex = 0
  /\ lastRoll = <<1, 1>>
  /\ consecutiveDoubles = 0
  /\ pendingAction = NoAction
  /\ pendingNextTurnIndex = NoIndex
  /\ pendingTrade = NoTrade
  /\ winnerId = NoPlayer
  /\ last = Command("init", NoPlayer, NoTile)
  /\ doublesRun = NoRun
  /\ nRolls = 0
  /\ nSide = 0

BoardRoll == RollWithin(MaxBoardRolls)

NextBoard ==
  \/ BoardRoll
  \/ ConfirmPurchase
  \/ DeclinePurchase

SpecBoard == InitBoard /\ [][NextBoard]_vars

-----------------------------------------------------------------------------
(* Every command of a running game, two rolls long, from a position in which the next roll
   of the first player can reach a chest tile (cell 3) and a chance tile (cell 5) and the
   two deck cursors are anywhere.  The first player owns the colour group {4, 6}. *)
InitCards ==
  /\ players = << [id |-> 1, funds |-> START_FUNDS, position |-> 1, inJail |-> FALSE,
                   jailTurns |-> 0, hasGetOutOfJail |-> FALSE],
                  [id |-> 2, funds |-> START_FUNDS, position |-> START_INDEX, inJail |-> FALSE,
                   jailTurns |-> 0, hasGetOutOfJail |-> FALSE] >>
  /\ propertyState = [createPropertyState EXCEPT ![4] = Holding(1, 0, FALSE), ![6] = Holding(1, 0, FALSE)]
  /\ chanceIndex \in 0..(Len(CHANCE_CARDS) - 1)
  /\ chestIndex \in 0..(Len(CHEST_CARDS) - 1)
  /\ phase = "rolling"
  /\ currentTurnIndex = 0
  /\ lastRoll = <<1, 1>>
  /\ consecutiveDoubles = 0
  /\ pendingAction = NoAction
  /\ pendingNextTurnIndex = NoIndex
  /\ pendingTrade = NoTrade
  /\ winnerId = NoPlayer
  /\ last = Command("init", NoPlayer, NoTile)
  /\ doublesRun = NoRun
  /\ nRolls = 0
  /\ nSide = 0

CardRoll == RollWithin(MaxCardRolls)

NextCards ==
  \/ CardRoll
  \/ ConfirmPurchase
  \/ DeclinePurchase
  \/ RequestUpgrade
  \/ ConfirmUpgrade
  \/ DeclineUpgrade
  \/ Mortgage
  \/ Redeem
  \/ ClaimPledge
  \/ ProposeTrade
  \/ AcceptTrade
  \/ RejectTrade
  \/ PayJailFine
  \/ UseJailReleaseCard

SpecCards == InitCards /\ [][NextCards]_vars

-----------------------------------------------------------------------------
(* Properties *)

(* C1: in every reachable state every property's ownerId is null or the id of a player of
   the current player list; no property points at a removed player. *)
C1_OwnersArePlayers ==
  \A t \in DOMAIN propertyState :
    propertyState[t].ownerId = NoPlayer \/ propertyState[t].ownerId \in PlayerIds(players)

(* a player has been removed and the only player left owns a property *)
C1_Witness ==
  /\ Len(players) = 1
  /\ \E t \in DOMAIN propertyState : propertyState[t].ownerId = players[1].id

(* C2: after an accepted roll that removes the acting player, the turn index designates the
   player who followed the removed player in the turn order. *)
C2_TurnAfterBankruptRoll ==
  [][(/\ last'.op = "roll" /\ last'.arg # 0
      /\ last'.actor \in PlayerIds(players)
      /\ last'.actor \notin PlayerIds(players')
      /\ Len(players') > 0)
     => TurnHolder(players', currentTurnIndex') = FollowerOf(players, last'.actor)]_vars

(* C3: after an accepted roll that removes a player and leaves exactly one player in the
   list, the phase is "summary". *)
C3_SummaryWhenOneLeft ==
  [][(last'.op = "roll" /\ last'.arg # 0 /\ Len(players) > 1 /\ Len(players') = 1)
     => phase' = "summary"]_vars

(* C4: after a command that leaves exactly one player in the list, winnerId is that
   player's id. *)
C4_WinnerWhenOneLeft ==
  [][(Len(players) > 1 /\ Len(players') = 1) => winnerId' = players'[1].id]_vars

(* C5: a roll command issued while an offer is pending or the phase is not "rolling" leaves
   the whole game state unchanged. *)
C5_RefusedRollChangesNothing ==
  [][(last'.op = "roll" /\ (pendingAction # NoAction \/ phase # "rolling"))
     => UNCHANGED gameVars]_vars

(* a roll was issued and refused while a purchase offer is pending *)
C5_Witness ==
  /\ last.op = "roll" /\ last.arg = 0
  /\ pendingAction.type = "purchase"
  /\ phase = "rolling"

(* C6, first part: an accepted roll that moves the acting player by the dice total onto an
   unowned ownable tile raises a purchase offer for that player, tile and price and leaves
   the turn index as it is. *)
C6_OfferRaised ==
  (/\ last'.op = "roll" /\ last'.arg # 0
   /\ last'.actor \in PlayerIds(players')
   /\ GetPlayer(players', last'.actor).position
        = normalizePosition(GetPlayer(players, last'.actor).position + last'.arg)
   /\ ~GetPlayer(players', last'.actor).inJail
   /\ GetPlayer(players', last'.actor).position \in OwnableTiles
   /\ propertyState[GetPlayer(players', last'.actor).position].ownerId = NoPlayer)
  => (/\ pendingAction'.type = "purchase"
      /\ pendingAction'.playerId = last'.actor
      /\ pendingAction'.tileId = GetPlayer(players', last'.actor).position
      /\ pendingAction'.price = TilePrice(GetPlayer(players', last'.actor).position)
      /\ currentTurnIndex' = currentTurnIndex)

(* C6, second part: while a purchase offer is pending, no command but its confirmation or
   refusal changes the turn index. *)
C6_TurnFrozen ==
  (pendingAction.type = "purchase" /\ last'.op \notin {"confirmPurchase", "declinePurchase"})
  => currentTurnIndex' = currentTurnIndex

(* C6, third part: confirming or declining the offer clears it and gives the turn to the
   player chosen at roll time: the offer's player after doubles, else the next in order. *)
C6_TurnAfterDecision ==
  (last'.op \in {"confirmPurchase", "declinePurchase"} /\ pendingAction.playerId \in PlayerIds(players))
  => (/\ pendingAction' = NoAction
      /\ TurnHolder(players', currentTurnIndex')
           = IF lastRoll[1] = lastRoll[2] THEN pendingAction.playerId
             ELSE FollowerOf(players, pendingAction.playerId))

(* C6: a roll onto an unowned ownable tile raises a purchase offer and the turn index stays
   as it is until the offer is resolved; confirmPurchase and declinePurchase clear the offer
   and give the turn to the same player after doubles, otherwise to the next player. *)
C6_PurchaseOfferHoldsTurn ==
  [][C6_OfferRaised /\ C6_TurnFrozen /\ C6_TurnAfterDecision]_vars

(* C7: the third doubles in a row of one player, with no release from jail in between,
   sends that player to the jail tile; no offer is raised, the doubles streak is 0 and the
   turn passes to the next player. *)
C7_ThirdDoublesJails ==
  [][(/\ last'.op = "roll" /\ last'.arg # 0
      /\ lastRoll'[1] = lastRoll'[2]
      /\ doublesRun.id = last'.actor /\ doublesRun.n = 2)
     => (/\ last'.actor \in PlayerIds(players')
         /\ GetPlayer(players', last'.actor).inJail
         /\ GetPlayer(players', last'.actor).position = JAIL_INDEX
         /\ pendingAction' = NoAction
         /\ consecutiveDoubles' = 0
         /\ TurnHolder(players', currentTurnIndex') = FollowerOf(players, last'.actor))]_vars

(* C8: an accepted roll that raises no offer and removes no player keeps the turn index
   after doubles (unless it is the third doubles or ends on the go-to-jail tile); otherwise
   the doubles streak is 0 and the turn index is (currentTurnIndex + 1) modulo the number
   of players. *)
C8_TurnAfterPlainRoll ==
  [][(/\ last'.op = "roll" /\ last'.arg # 0
      /\ pendingAction' = NoAction
      /\ PlayerIds(players') = PlayerIds(players))
     => IF /\ lastRoll'[1] = lastRoll'[2]
           /\ consecutiveDoubles + 1 < 3
           /\ ~(/\ GetPlayer(players', last'.actor).inJail
                /\ TileType(normalizePosition(GetPlayer(players, last'.actor).position + last'.arg))
                     = "gotojail")
        THEN /\ currentTurnIndex' = currentTurnIndex
             /\ TurnHolder(players', currentTurnIndex') = last'.actor
        ELSE /\ consecutiveDoubles' = 0
             /\ currentTurnIndex' = (currentTurnIndex + 1) % Len(players)]_vars

(* C9: payAmount with an amount above the payer's funds f removes the payer, credits the
   receiver, if one is given, exactly f, changes no other player's funds, and hands every
   property of the payer to the receiver. *)
C9_PartialPayment ==
  [][(/\ last'.op = "pay"
      /\ GetFunds(players, last'.actor) < last'.arg[2])
     => (/\ last'.actor \notin PlayerIds(players')
         /\ PlayerIds(players') = PlayerIds(players) \ {last'.actor}
         /\ \A k \in 1..Len(players') :
              players'[k].funds =
                GetFunds(players, players'[k].id)
                + (IF players'[k].id = last'.arg[1] THEN GetFunds(players, last'.actor) ELSE 0)
         /\ last'.arg[1] # NoPlayer =>
              \A t \in DOMAIN propertyState :
                propertyState[t].ownerId = last'.actor => propertyState'[t].ownerId = last'.arg[1])]_vars

(* of two players the first, short of the 50 due, paid the second, who now holds 20 and
   the first player's property *)
C9_Witness ==
  /\ last = Command("pay", 1, <<2, 50>>)
  /\ Len(players) = 1
  /\ players[1].id = 2 /\ players[1].funds = 20
  /\ \E t \in DOMAIN propertyState : propertyState[t].ownerId = 2

(* C10: handleBankruptcy removes exactly the bankrupt player and keeps the order of the
   others; each property of the bankrupt player goes to the creditor, or with no creditor
   becomes unowned, undeveloped and unmortgaged; the other properties are untouched. *)
C10_BankruptcyDisposal ==
  [][last'.op = "bankrupt"
     => (/\ Len(players') = Len(players) - 1
         /\ \A k \in 1..Len(players') :
              players'[k] = players[IF k <= IndexOf(players, last'.actor) THEN k ELSE k + 1]
         /\ \A t \in DOMAIN propertyState :
              IF propertyState[t].ownerId = last'.actor
              THEN IF last'.arg # NoPlayer
                   THEN propertyState'[t].ownerId = last'.arg
                   ELSE propertyState'[t] = [ownerId |-> NoPlayer, houses |-> 0, mortgaged |-> FALSE]
              ELSE propertyState'[t] = propertyState[t])]_vars

(* the middle one of three players went bankrupt to the bank: the two others remain, in
   their order, and no tile of the ledger is owned *)
C10_Witness ==
  /\ last = Command("bankrupt", 2, NoPlayer)
  /\ IdSeq(players) = <<1, 3>>
  /\ \A t \in LedgerTiles : propertyState[t].ownerId = NoPlayer

(* The sum of the funds of the players of ps *)
TotalFunds(ps) ==
  LET sum[k \in 0..Len(ps)] == IF k = 0 THEN 0 ELSE sum[k - 1] + ps[k].funds
  IN sum[Len(ps)]

(* C11: payAmount with 0 < amount <= the payer's funds and a receiver in the list debits the
   payer and credits the receiver by exactly amount: the sum of all funds is unchanged, no
   other player's funds change, no property changes and nobody is removed.  With
   amount <= 0 payAmount changes nothing. *)
C11_FundsConserved ==
  [][last'.op = "pay"
     => (/\ (/\ last'.arg[2] > 0
             /\ last'.arg[2] <= GetFunds(players, last'.actor)
             /\ last'.arg[1] \in PlayerIds(players))
            => (/\ IdSeq(players') = IdSeq(players)
                /\ \A k \in 1..Len(players) :
                     players'[k] =
                       [players[k] EXCEPT !.funds =
                          @ + (IF players[k].id = last'.arg[1] THEN last'.arg[2] ELSE 0)
                            - (IF players[k].id = last'.actor THEN last'.arg[2] ELSE 0)]
                /\ TotalFunds(players') = TotalFunds(players)
                /\ propertyState' = propertyState)
         /\ last'.arg[2] <= 0 => (players' = players /\ propertyState' = propertyState))]_vars

(* of two players holding 20 each the first paid the second 10 *)
C11_Witness ==
  /\ last = Command("pay", 1, <<2, 10>>)
  /\ Len(players) = 2
  /\ players[1].funds = 10 /\ players[2].funds = 30

(* C12: in every reachable state every player's funds are >= 0. *)
C12_FundsNeverNegative ==
  \A k \in 1..Len(players) : players[k].funds >= 0

(* the tax of 1490 left the player who rolled with funds 10, less than any price or fine *)
C12_Witness ==
  /\ last.op = "roll" /\ last.arg # 0
  /\ last.actor \in PlayerIds(players)
  /\ GetPlayer(players, last.actor).funds = START_FUNDS - HeavyTax
  /\ GetPlayer(players, last.actor).funds < JAIL_FINE

(* C13: in every reachable state no property is both mortgaged and developed. *)
C13_MortgagedUndeveloped ==
  \A t \in DOMAIN propertyState : propertyState[t].mortgaged => propertyState[t].houses = 0

(* C14: confirmUpgrade raises a tile's development level or debits the price only if the
   player named in the offer owns, at that moment, the tile and every tile of its group. *)
C14_UpgradeOnlyForOwner ==
  [][(/\ last'.op = "confirmUpgrade"
      /\ \/ propertyState' # propertyState
         \/ \E k \in 1..Len(players) : players'[k].funds # players[k].funds)
     => (/\ propertyState[pendingAction.tileId].ownerId = pendingAction.playerId
         /\ ownsFullSet(pendingAction.playerId, pendingAction.tileId, propertyState))]_vars

(* The conditions under which the turn holder may ask for an upgrade of tile t *)
UpgradeAllowed(t) ==
  /\ pendingAction = NoAction
  /\ TurnHolder(players, currentTurnIndex) # NoPlayer
  /\ t \in DOMAIN propertyState
  /\ propertyState[t].ownerId = TurnHolder(players, currentTurnIndex)
  /\ ownsFullSet(TurnHolder(players, currentTurnIndex), t, propertyState)
  /\ ~propertyState[t].mortgaged
  /\ propertyState[t].houses < MAX_UPGRADE_LEVEL

(* C15: requestUpgrade(tile) creates an upgrade offer only if no action is pending and the
   turn holder owns the tile and its whole group, the tile is not mortgaged and its level
   is below 5; otherwise the state is unchanged.  The offer's level is the current level
   plus 1 and its price is the development cost for levels 1 to 4, twice that for level 5. *)
C15_RequestUpgradeGuard ==
  [][last'.op = "requestUpgrade"
     => IF UpgradeAllowed(last'.arg)
        THEN /\ pendingAction' =
                  [type |-> "upgrade", tileId |-> last'.arg,
                   playerId |-> TurnHolder(players, currentTurnIndex),
                   price |-> IF propertyState[last'.arg].houses + 1 <= 4
                             THEN TileHouseCost(last'.arg) ELSE 2 * TileHouseCost(last'.arg),
                   nextLevel |-> propertyState[last'.arg].houses + 1]
             /\ players' = players /\ propertyState' = propertyState
             /\ currentTurnIndex' = currentTurnIndex
        ELSE UNCHANGED gameVars]_vars

(* an offer for the fifth level of tile 4 at twice its development cost *)
C15_Witness ==
  /\ last.op = "requestUpgrade"
  /\ last.actor = TurnHolder(players, currentTurnIndex)
  /\ last.arg = 4
  /\ pendingAction.type = "upgrade"
  /\ pendingAction.nextLevel = MAX_UPGRADE_LEVEL
  /\ pendingAction.price = 2 * TileHouseCost(4)

(* C16: confirmPurchase debits the buyer by exactly the offered price and makes the buyer
   the tile's owner if and only if the buyer's funds are >= the price; otherwise no funds
   and no ownership change.  Either way the offer is cleared and the turn index becomes the
   index computed at roll time. *)
C16_PurchaseIffAffordable ==
  [][(last'.op = "confirmPurchase" /\ pendingAction.playerId \in PlayerIds(players))
     => (/\ IF GetFunds(players, pendingAction.playerId) >= pendingAction.price
            THEN /\ players' = Credit(players, pendingAction.playerId, -pendingAction.price)
                 /\ propertyState' =
                      [propertyState EXCEPT ![pendingAction.tileId].ownerId = pendingAction.playerId]
            ELSE /\ players' = players
                 /\ propertyState' = propertyState
         /\ pendingAction' = NoAction
         /\ pendingNextTurnIndex' = NoIndex
         /\ currentTurnIndex' = pendingNextTurnIndex)]_vars

(* a purchase confirmed by a buyer short of the price: the tile is still unowned and the
   offer is gone *)
C16_Witness ==
  /\ last.op = "confirmPurchase"
  /\ last.actor \in PlayerIds(players)
  /\ GetFunds(players, last.actor) < TilePrice(last.arg)
  /\ propertyState[last.arg].ownerId = NoPlayer
  /\ pendingAction = NoAction

(* C17: declining a pending action, by declinePurchase or declineUpgrade, changes no
   player's funds or position and no property's owner, level or mortgage flag. *)
C17_DeclineChangesNoAsset ==
  [][last'.op \in {"declinePurchase", "declineUpgrade"}
     => (players' = players /\ propertyState' = propertyState)]_vars

(* an upgrade offer was declined: nothing is pending and the tile is at its level *)
C17_Witness ==
  /\ last.op = "declineUpgrade"
  /\ pendingAction = NoAction
  /\ propertyState[last.arg].ownerId = last.actor
  /\ propertyState[last.arg].houses = 0

(* The proposal can still be carried out: both parties are players, each holds the cash it
   offered and every listed tile is owned by the party that offered it *)
TradeStillValid(trade) ==
  /\ trade.fromId \in PlayerIds(players)
  /\ trade.toId \in PlayerIds(players)
  /\ GetFunds(players, trade.fromId) >= trade.giveCash
  /\ GetFunds(players, trade.toId) >= trade.receiveCash
  /\ \A t \in trade.giveTiles : propertyState[t].ownerId = trade.fromId
  /\ \A t \in trade.receiveTiles : propertyState[t].ownerId = trade.toId

(* C18: acceptTrade is all-or-nothing.  If the proposal can still be carried out, both cash
   amounts are exchanged (the parties' funds sum is unchanged) and every listed tile goes to
   the other party; otherwise no funds and no owner change.  In both cases the proposal is
   cleared. *)
C18_AcceptAllOrNothing ==
  [][last'.op = "acceptTrade"
     => (/\ pendingTrade' = NoTrade
         /\ IF TradeStillValid(pendingTrade)
            THEN /\ Len(players') = Len(players)
                 /\ \A k \in 1..Len(players) :
                      players'[k] =
                        [players[k] EXCEPT
                           !.funds = @ + (IF players[k].id = pendingTrade.fromId
                                          THEN pendingTrade.receiveCash - pendingTrade.giveCash ELSE 0)
                                       + (IF players[k].id = pendingTrade.toId
                                          THEN pendingTrade.giveCash - pendingTrade.receiveCash ELSE 0)]
                 /\ GetFunds(players', pendingTrade.fromId) + GetFunds(players', pendingTrade.toId)
                      = GetFunds(players, pendingTrade.fromId) + GetFunds(players, pendingTrade.toId)
                 /\ \A t \in DOMAIN propertyState :
                      propertyState'[t] =
                        [propertyState[t] EXCEPT
                           !.ownerId = IF t \in pendingTrade.giveTiles THEN pendingTrade.toId
                                       ELSE IF t \in pendingTrade.receiveTiles THEN pendingTrade.fromId
                                       ELSE @]
            ELSE players' = players /\ propertyState' = propertyState)]_vars

(* an accepted proposal was voided: the party asked for cash no longer holds the amount
   that it held when the proposal was stored *)
C18_Witness ==
  /\ last.op = "acceptTrade"
  /\ last.arg.receiveCash > 0
  /\ last.arg.toId \in PlayerIds(players)
  /\ GetFunds(players, last.arg.toId) < last.arg.receiveCash
  /\ pendingTrade = NoTrade

(* C19: a proposal listing a given tile that the sender does not own, or a received tile
   that the recipient does not own, is refused: no proposal is stored and nothing changes. *)
C19_UnownedTileRefused ==
  [][(/\ last'.op = "proposeTrade"
      /\ \/ \E t \in last'.arg.giveTiles : propertyState[t].ownerId # last'.arg.fromId
         \/ \E t \in last'.arg.receiveTiles : propertyState[t].ownerId # last'.arg.toId)
     => UNCHANGED gameVars]_vars

(* The reasons for which a proposal is refused, apart from tile ownership *)
ProposalRefused(offer) ==
  \/ pendingTrade # NoTrade
  \/ offer.fromId \notin PlayerIds(players)
  \/ offer.toId \notin PlayerIds(players)
  \/ (offer.giveCash = 0 /\ offer.receiveCash = 0 /\ offer.giveTiles = {} /\ offer.receiveTiles = {})
  \/ (offer.fromId \in PlayerIds(players) /\ GetFunds(players, offer.fromId) < offer.giveCash)
  \/ (offer.toId \in PlayerIds(players) /\ GetFunds(players, offer.toId) < offer.receiveCash)

(* C20: a proposal is refused with no state change if one is already outstanding, if a party
   is not a current player, if both cash amounts are zero and both tile sets empty, or if a
   party holds less cash than it is asked to give; an outstanding proposal is therefore never
   overwritten. *)
C20_ProposalRefusals ==
  [][last'.op = "proposeTrade"
     => (/\ ProposalRefused(last'.arg) => UNCHANGED gameVars
         /\ pendingTrade # NoTrade => pendingTrade' = pendingTrade)]_vars

(* a proposal between two players, backed by their funds, met an outstanding one, which
   is still the stored proposal *)
C20_Witness ==
  /\ last.op = "proposeTrade"
  /\ last.arg.fromId = 2 /\ last.arg.toId = 1
  /\ last.arg.giveCash = 0 /\ last.arg.receiveCash = 100
  /\ pendingTrade = TradeOutstanding

(* C21: rejectTrade clears the outstanding proposal only for its recipient or its sender;
   called with the id of any other player the proposal stays pending. *)
C21_RejectOnlyByParty ==
  [][(/\ last'.op = "rejectTrade"
      /\ pendingTrade # NoTrade
      /\ last'.actor \notin {pendingTrade.fromId, pendingTrade.toId})
     => pendingTrade' = pendingTrade]_vars

(* Whether landing on tile t makes the player id pay: a tax, or rent to another owner *)
DestCharges(t, id) ==
  \/ TileType(t) = "tax"
  \/ /\ t \in OwnableTiles
     /\ propertyState[t].ownerId \notin {NoPlayer, id}
     /\ ~propertyState[t].mortgaged

(* Whether landing on tile t can move the token again or change the jail state *)
Relocates(t) == TileType(t) \in {"chance", "chest", "gotojail"}

(* The step is an accepted roll of a player who was in jail *)
JailedRoll == last'.op = "roll" /\ last'.arg # 0 /\ Jailed(players, last'.actor)

(* C22: a jailed player without a release card who rolls non-doubles gets jailTurns + 1; on
   the first and second such roll the player stays and the turn passes; on the third the
   fine is charged: a player who can pay is released and moves by the dice total in that
   roll, one who cannot is removed.  No player ever has three failed jail rolls on record. *)
C22_FailedJailRolls ==
  [][/\ (/\ JailedRoll
         /\ ~GetPlayer(players, last'.actor).hasGetOutOfJail
         /\ lastRoll'[1] # lastRoll'[2])
        => LET me == GetPlayer(players, last'.actor)
               dest == normalizePosition(me.position + last'.arg)
           IN IF me.jailTurns + 1 < MAX_JAIL_TURNS
              THEN /\ players' = SetPlayer(players, me.id, [me EXCEPT !.jailTurns = @ + 1])
                   /\ currentTurnIndex' = (IndexOf(players, me.id) + 1) % Len(players)
              ELSE IF me.funds >= JAIL_FINE
              THEN /\ me.id \in PlayerIds(players') \/ DestCharges(dest, me.id)
                   /\ (me.id \in PlayerIds(players') /\ ~Relocates(dest))
                        => /\ ~GetPlayer(players', me.id).inJail
                           /\ GetPlayer(players', me.id).jailTurns = 0
                           /\ GetPlayer(players', me.id).position = dest
                           /\ GetPlayer(players', me.id).funds <= me.funds - JAIL_FINE
                           /\ ~DestCharges(dest, me.id)
                                => GetPlayer(players', me.id).funds = me.funds - JAIL_FINE
              ELSE /\ me.id \notin PlayerIds(players')
                   /\ Len(players') = Len(players) - 1
     /\ \A k \in 1..Len(players') : players'[k].jailTurns < MAX_JAIL_TURNS]_vars

(* the first player, short of the fine, was removed by a roll of (1, 2): the third failed
   jail roll *)
C22_Witness ==
  /\ last.op = "roll"
  /\ last.actor = 1
  /\ lastRoll = <<1, 2>>
  /\ 1 \notin PlayerIds(players)
  /\ nRolls = MaxJailRolls

(* C23: a jailed player holding a release card is released at the next roll whatever the
   dice show and the card is consumed; a jailed player without a card who rolls doubles is
   released; in both cases inJail is false, jailTurns is 0, no fine is charged and the
   token moves by the dice total in that roll. *)
C23_ReleaseByCardOrDoubles ==
  [][(/\ JailedRoll
      /\ \/ GetPlayer(players, last'.actor).hasGetOutOfJail
         \/ lastRoll'[1] = lastRoll'[2])
     => LET me == GetPlayer(players, last'.actor)
            dest == normalizePosition(me.position + last'.arg)
        IN (~Relocates(dest) /\ ~DestCharges(dest, me.id))
           => /\ me.id \in PlayerIds(players')
              /\ GetPlayer(players', me.id) =
                   [me EXCEPT !.inJail = FALSE, !.jailTurns = 0, !.hasGetOutOfJail = FALSE,
                              !.position = dest,
                              !.funds = IF dest < me.position THEN @ + PASS_START_BONUS ELSE @]]_vars

(* C24: a dice move that ends on the go-to-jail tile puts the acting player on the jail
   tile with inJail = true and jailTurns = 0, resets the doubles streak to 0 and passes the
   turn to the next player, doubles or not. *)
C24_GoToJailTile ==
  [][(/\ last'.op = "roll" /\ last'.arg # 0
      /\ ~Jailed(players, last'.actor)
      /\ ~(lastRoll'[1] = lastRoll'[2] /\ consecutiveDoubles + 1 >= 3)
      /\ normalizePosition(GetPlayer(players, last'.actor).position + last'.arg) = GoToJailIndex)
     => (/\ players' = SetPlayer(players, last'.actor,
                                 [GetPlayer(players, last'.actor) EXCEPT
                                    !.position = JAIL_INDEX, !.inJail = TRUE, !.jailTurns = 0])
         /\ consecutiveDoubles' = 0
         /\ pendingAction' = NoAction
         /\ currentTurnIndex' = (IndexOf(players, last'.actor) + 1) % Len(players))]_vars

(* a player who rolled doubles, not the third in a row, is in jail and the turn has passed *)
C24_Witness ==
  /\ last.op = "roll"
  /\ lastRoll[1] = lastRoll[2]
  /\ Jailed(players, last.actor)
  /\ GetPlayer(players, last.actor).position = JAIL_INDEX
  /\ doublesRun.id = last.actor /\ doublesRun.n \in {1, 2}
  /\ consecutiveDoubles = 0
  /\ currentTurnIndex # IndexOf(players, last.actor)

(* The step is an accepted roll whose player makes the dice move: free before the roll and
   not jailed by a third doubles *)
DiceMove ==
  /\ last'.op = "roll" /\ last'.arg # 0
  /\ ~Jailed(players, last'.actor)
  /\ ~(lastRoll'[1] = lastRoll'[2] /\ consecutiveDoubles + 1 >= 3)

(* C25: a dice move from position p by total t ends at (p + t) mod 40 and credits the
   pass-start bonus exactly once if p + t >= 40 and not at all otherwise (shown on the
   destinations that do not move the token again: the funds change by the bonus alone, or
   by the bonus less the tax of a tax tile). *)
C25_MoveAndBonus ==
  [][DiceMove
     => LET me == GetPlayer(players, last'.actor)
            dest == (me.position + last'.arg) % BoardSize
            bonus == IF me.position + last'.arg >= BoardSize THEN PASS_START_BONUS ELSE 0
        IN (me.id \in PlayerIds(players') /\ ~Relocates(dest))
           => /\ GetPlayer(players', me.id).position = dest
              /\ ~DestCharges(dest, me.id) => GetPlayer(players', me.id).funds = me.funds + bonus
              /\ TileType(dest) = "tax"
                   => GetPlayer(players', me.id).funds = me.funds + bonus - TilePrice(dest)]_vars

(* the player who stood on cell 38 rolled (1, 2): cell 1, one bonus *)
C25_Witness ==
  /\ last.op = "roll"
  /\ last.actor = 1
  /\ lastRoll = <<1, 2>>
  /\ 1 \in PlayerIds(players)
  /\ GetPlayer(players, 1).position = 1
  /\ GetPlayer(players, 1).funds = START_FUNDS + PASS_START_BONUS

(* What a drawn card shows on the player who drew it and is still in the game: before is
   the player on the card tile, after the player when the roll has ended *)
CardShows(card, before, after) ==
  CASE card.action = "collect" -> after.funds = before.funds + card.amount
    [] card.action = "pay" -> after.funds = before.funds - card.amount
    [] card.action = "move" -> after.position = normalizePosition(card.target)
    [] card.action = "move-relative" -> after.position = normalizePosition(before.position + card.offset)
    [] card.action = "advance-to-next" -> TileType(after.position) = card.tileType
    [] card.action = "repair" -> after.funds <= before.funds /\ after.position = before.position
    [] card.action = "get-out-of-jail" -> after.hasGetOutOfJail
    [] card.action = "go-to-jail" -> after.inJail /\ after.position = JAIL_INDEX
    [] card.action = "luck-check" ->
         after.funds \in {before.funds + card.success, before.funds - card.failure}
    [] OTHER -> FALSE

(* The player who lands on a card tile by the dice move of this step *)
Lander ==
  [GetPlayer(players, last'.actor) EXCEPT
     !.position = normalizePosition(@ + last'.arg),
     !.funds = IF GetPlayer(players, last'.actor).position + last'.arg >= BoardSize
               THEN @ + PASS_START_BONUS ELSE @]

(* C26: a landing on a chance tile draws the card at the chance cursor and advances only
   the chance cursor by one modulo the deck length; likewise for chest; no other step of
   any command moves a cursor. *)
C26_CursorsCycle ==
  [][IF DiceMove /\ TileType(Lander.position) = "chance"
     THEN /\ chanceIndex' = (chanceIndex + 1) % Len(CHANCE_CARDS)
          /\ chestIndex' = chestIndex
          /\ last'.actor \in PlayerIds(players')
               => CardShows(CHANCE_CARDS[chanceIndex + 1], Lander, GetPlayer(players', last'.actor))
     ELSE IF DiceMove /\ TileType(Lander.position) = "chest"
     THEN /\ chestIndex' = (chestIndex + 1) % Len(CHEST_CARDS)
          /\ chanceIndex' = chanceIndex
          /\ last'.actor \in PlayerIds(players')
               => CardShows(CHEST_CARDS[chestIndex + 1], Lander, GetPlayer(players', last'.actor))
     ELSE chanceIndex' = chanceIndex /\ chestIndex' = chestIndex]_vars

(* the last card of the chest deck was drawn (100 collected on cell 3) and the cursor is
   back on the first card *)
C26_Witness ==
  /\ last.op = "roll"
  /\ last.actor = 1
  /\ nRolls = 1
  /\ 1 \in PlayerIds(players)
  /\ GetPlayer(players, 1).position = 3
  /\ GetPlayer(players, 1).funds = START_FUNDS + CHEST_CARDS[Len(CHEST_CARDS)].amount
  /\ chestIndex = 0

(* C27: a dice move onto an ownable tile that the acting player owns, or that is mortgaged,
   causes no payment: the acting player's funds change by the pass-start bonus alone, every
   other player is unchanged, nobody is removed and no offer is raised. *)
C27_NoRentOnOwnOrMortgaged ==
  [][(/\ DiceMove
      /\ Lander.position \in OwnableTiles
      /\ \/ propertyState[Lander.position].ownerId = last'.actor
         \/ propertyState[Lander.position].mortgaged)
     => (/\ players' = SetPlayer(players, last'.actor, Lander)
         /\ propertyState' = propertyState
         /\ pendingAction' = NoAction)]_vars

(* the first player stands on the railway of cell 11, which the second player has
   mortgaged, and both still hold their starting funds *)
C27_Witness ==
  /\ last.op = "roll"
  /\ last.actor = 1
  /\ Len(players) = 2
  /\ players[1].position = 11
  /\ propertyState[11] = Holding(2, 0, TRUE)
  /\ players[1].funds = START_FUNDS
  /\ players[2].funds = START_FUNDS

(* The rent of tile t for a dice total, owed to the player ownerId: base fee times the
   railways held; dice total times 4 with one utility held and times 10 with both; for a
   standard property the tier of its level, else twice the base rent for a whole colour
   group, else the base rent *)
RentDue(t, total, ownerId) ==
  LET held(tiles) == Cardinality({u \in tiles : propertyState[u].ownerId = ownerId})
  IN IF t \in RailwayTiles THEN RAILWAY_BASE_RENT * held(RailwayTiles)
     ELSE IF t \in UtilityTiles
     THEN total * (IF held(UtilityTiles) = Cardinality(UtilityTiles) THEN 10 ELSE 4)
     ELSE IF propertyState[t].houses > 0 THEN TileRentLevels(t)[propertyState[t].houses]
     ELSE IF held(ColourGroups[TileGroup(t)]) = Cardinality(ColourGroups[TileGroup(t)])
     THEN 2 * TileRent(t)
     ELSE TileRent(t)

(* C28: a dice move onto another player's unmortgaged tile charges the rent of the tile: a
   player who holds it pays exactly that amount to the owner; one who does not is removed
   and the owner receives what the player had. *)
C28_RentCharged ==
  [][(/\ DiceMove
      /\ Lander.position \in OwnableTiles
      /\ propertyState[Lander.position].ownerId \in PlayerIds(players) \ {last'.actor}
      /\ ~propertyState[Lander.position].mortgaged)
     => LET ownerId == propertyState[Lander.position].ownerId
            rent == RentDue(Lander.position, last'.arg, ownerId)
        IN IF Lander.funds >= rent
           THEN players' = Credit(Credit(SetPlayer(players, last'.actor, Lander), last'.actor, -rent),
                                  ownerId, rent)
           ELSE /\ last'.actor \notin PlayerIds(players')
                /\ GetFunds(players', ownerId) = GetFunds(players, ownerId) + Lander.funds]_vars

(* the first player rolled (1, 1) onto the utility of cell 13 while the second player held
   both utilities, and paid ten times the dice total *)
C28_Witness ==
  /\ last.op = "roll"
  /\ last.actor = 1
  /\ lastRoll = <<1, 1>>
  /\ Len(players) = 2
  /\ players[1].position = 13
  /\ propertyState[13].ownerId = 2 /\ propertyState[28].ownerId = 2
  /\ players[1].funds = START_FUNDS - 20
  /\ players[2].funds = START_FUNDS + 20

(* The repair fee of one tile: its level times the per-unit fee up to level 4, the top-tier
   fee alone at level 5 *)
RepairDueFor(meta, card) ==
  IF meta.houses = MAX_UPGRADE_LEVEL THEN card.hotelCost ELSE meta.houses * card.houseCost

RECURSIVE RepairDue(_, _)
RepairDue(tiles, card) ==
  IF tiles = {} THEN 0
  ELSE LET t == CHOOSE x \in tiles : TRUE
       IN RepairDueFor(propertyState[t], card) + RepairDue(tiles \ {t}, card)

(* C29: the repair card charges the acting player, to the bank, the sum over the tiles the
   player owns of level times the per-unit fee for levels 1 to 4 and of the top-tier fee
   alone for level 5; a player who does not hold the sum is removed. *)
C29_RepairCharge ==
  [][(/\ DiceMove
      /\ TileType(Lander.position) = "chest"
      /\ CHEST_CARDS[chestIndex + 1].action = "repair")
     => LET due == RepairDue({t \in OwnableTiles : propertyState[t].ownerId = last'.actor},
                             CHEST_CARDS[chestIndex + 1])
        IN IF Lander.funds >= due
           THEN players' = Credit(SetPlayer(players, last'.actor, Lander), last'.actor, -due)
           ELSE last'.actor \notin PlayerIds(players')]_vars

(* C30: mortgage(tile) succeeds only if the player holding the turn owns the tile, the tile's
   development level is 0 and it is not already mortgaged; it then credits that player the
   tile's mortgage value and sets the tile's mortgaged flag; in every other case the state
   is unchanged. *)
C30_Mortgage ==
  [][last'.op = "mortgage"
     => LET t == last'.arg
            holder == TurnHolder(players, currentTurnIndex)
        IN IF /\ holder # NoPlayer
              /\ propertyState[t].ownerId = holder
              /\ propertyState[t].houses = 0
              /\ ~propertyState[t].mortgaged
           THEN /\ players' = Credit(players, holder, getMortgageValue(t))
                /\ propertyState' = [propertyState EXCEPT ![t].mortgaged = TRUE]
                /\ UNCHANGED <<phase, currentTurnIndex, lastRoll, consecutiveDoubles,
                               pendingAction, pendingNextTurnIndex, chanceIndex, chestIndex,
                               pendingTrade, winnerId>>
           ELSE UNCHANGED gameVars]_vars

C30_Witness ==
  /\ last.op = "mortgage"
  /\ last.arg = 4
  /\ propertyState[4].mortgaged
  /\ propertyState[4].houses = 0
  /\ propertyState[4].ownerId = last.actor
  /\ last.actor \in PlayerIds(players)
  /\ GetPlayer(players, last.actor).funds = START_FUNDS + getMortgageValue(4)

(* 110% of a mortgage value, rounded up *)
RedeemCost(value) == (11 * value + 9) \div 10

(* C31: redeem(tile) succeeds only if the player holding the turn owns the tile, the tile is
   mortgaged and the player holds at least 110% of the mortgage value rounded up; it then
   debits exactly that amount and clears the mortgaged flag; in every other case the state
   is unchanged. *)
C31_Redeem ==
  [][last'.op = "redeem"
     => LET t == last'.arg
            holder == TurnHolder(players, currentTurnIndex)
            cost == RedeemCost(getMortgageValue(t))
        IN IF /\ holder # NoPlayer
              /\ propertyState[t].ownerId = holder
              /\ propertyState[t].mortgaged
              /\ GetPlayer(players, holder).funds >= cost
           THEN /\ players' = Credit(players, holder, -cost)
                /\ propertyState' = [propertyState EXCEPT ![t].mortgaged = FALSE]
                /\ UNCHANGED <<phase, currentTurnIndex, lastRoll, consecutiveDoubles,
                               pendingAction, pendingNextTurnIndex, chanceIndex, chestIndex,
                               pendingTrade, winnerId>>
           ELSE UNCHANGED gameVars]_vars

(* The commands opened between rolls: development, mortgage and trade *)
DeskOps == {"requestUpgrade", "confirmUpgrade", "declineUpgrade", "mortgage", "redeem",
            "proposeTrade", "acceptTrade", "rejectTrade"}

(* C32: requestUpgrade, confirmUpgrade, declineUpgrade, mortgage, redeem and trade
   propose/accept/reject never change currentTurnIndex, the doubles streak or any player's
   position. *)
C32_DeskKeepsTurn ==
  [][last'.op \in DeskOps
     => /\ currentTurnIndex' = currentTurnIndex
        /\ consecutiveDoubles' = consecutiveDoubles
        /\ Len(players') = Len(players)
        /\ \A k \in 1..Len(players) :
             /\ players'[k].id = players[k].id
             /\ players'[k].position = players[k].position]_vars

C32_Witness ==
  /\ last.op = "mortgage"
  /\ consecutiveDoubles = 1
  /\ last.actor = TurnHolder(players, currentTurnIndex)
  /\ propertyState[last.arg].mortgaged
  /\ last.actor \in PlayerIds(players)
  /\ GetPlayer(players, last.actor).position = last.arg

(* C33: in every reachable state with at least one player, currentTurnIndex is an index of
   the player list, also after a jail fine removes a player while a purchase offer is
   pending and the offer is settled afterwards. *)
C33_TurnIndexInRange ==
  Len(players) >= 1 => (0 <= currentTurnIndex /\ currentTurnIndex < Len(players))

(* C34: when payJailFine removes a jailed player who does not hold the turn, the turn stays
   with the player who held it: currentTurnIndex is decremented if the removed player
   preceded the turn holder in the list and unchanged otherwise. *)
C34_FineRemovalKeepsTurn ==
  [][(/\ last'.op = "payJailFine"
      /\ last'.actor \in PlayerIds(players)
      /\ last'.actor \notin PlayerIds(players')
      /\ currentTurnIndex < Len(players)
      /\ last'.actor # players[currentTurnIndex + 1].id)
     => /\ currentTurnIndex' < Len(players')
        /\ players'[currentTurnIndex' + 1].id = players[currentTurnIndex + 1].id
        /\ currentTurnIndex' = IF IndexOf(players, last'.actor) < currentTurnIndex
                                THEN currentTurnIndex - 1 ELSE currentTurnIndex]_vars

(* C35: after a roll that puts the acting player in jail (third doubles in a row, the
   go-to-jail tile, or a go-to-jail card), with at least two players remaining, the turn is
   with another player and the doubles streak is 0. *)
C35_JailedLosesTurn ==
  [][(/\ last'.op = "roll"
      /\ last'.arg > 0
      /\ last'.actor \in PlayerIds(players)
      /\ ~GetPlayer(players, last'.actor).inJail
      /\ last'.actor \in PlayerIds(players')
      /\ GetPlayer(players', last'.actor).inJail
      /\ Len(players') >= 2)
     => /\ TurnHolder(players', currentTurnIndex') # last'.actor
        /\ consecutiveDoubles' = 0]_vars

-----------------------------------------------------------------------------
(* An estate while its neighbour sits in jail: player 2 has bought tiles 4 and 6 on two
   doubles and holds the turn, player 1 paid the heavy tax and was jailed for a third
   doubles.  The commands are the ones the store accepts without a roll:
   upgrade request and decision, trade proposal and decision, and the jail fine. *)
InitEstate ==
  /\ players = << [id |-> 1, funds |-> START_FUNDS - HeavyTax, position |-> JAIL_INDEX,
                    inJail |-> TRUE, jailTurns |-> 0, hasGetOutOfJail |-> FALSE],
                  [id |-> 2, funds |-> START_FUNDS - TilePrice(4) - TilePrice(6), position |-> 6,
                    inJail |-> FALSE, jailTurns |-> 0, hasGetOutOfJail |-> FALSE] >>
  /\ propertyState = [t \in OwnableTiles |->
                        [ownerId |-> IF t \in {4, 6} THEN 2 ELSE NoPlayer,
                         houses |-> 0, mortgaged |-> FALSE]]
  /\ phase = "rolling"
  /\ currentTurnIndex = 1
  /\ lastRoll = <<1, 1>>
  /\ consecutiveDoubles = 2
  /\ pendingAction = NoAction
  /\ pendingNextTurnIndex = NoIndex
  /\ chanceIndex = 0
  /\ chestIndex = 0
  /\ pendingTrade = NoTrade
  /\ winnerId = NoPlayer
  /\ last = Command("init", NoPlayer, NoTile)
  /\ doublesRun = [id |-> 2, n |-> 2]
  /\ nRolls = 0
  /\ nSide = 0

NextEstate ==
  \/ DeskRequestUpgrade
  \/ DeskProposeTrade
  \/ ConfirmUpgrade
  \/ DeclineUpgrade
  \/ AcceptTrade
  \/ RejectTrade
  \/ PayJailFine

SpecEstate == InitEstate /\ [][NextEstate]_vars

(* C36: in every reachable state every unowned property has development level 0 and is not
   mortgaged, also when an upgrade offer requested earlier is confirmed after the tile has
   returned to the bank. *)
C36_UnownedIsBare ==
  \A t \in DOMAIN propertyState :
    propertyState[t].ownerId = NoPlayer
      => (propertyState[t].houses = 0 /\ ~propertyState[t].mortgaged)

(* C37: confirmUpgrade and declineUpgrade have no effect while the pending action is a
   purchase offer, so a purchase offer is never dismissed without the turn advancing to
   its pre-computed index. *)
C37_UpgradeDecisionSparesOffer ==
  [][(last'.op \in {"confirmUpgrade", "declineUpgrade"} /\ pendingAction.type = "purchase")
     => UNCHANGED gameVars]_vars

(* The player who made the last roll, as far as a doubles streak is concerned: the actor of
   a roll, and between rolls the player whose doubles are being counted *)
Roller(cmd, run) == IF cmd.op = "roll" THEN cmd.actor ELSE run.id

(* C38: the doubles streak belongs to the player holding the turn: whenever a command hands
   the turn to a player other than the one who made the last roll, also when the roller is
   removed on a doubles roll or a player is removed by payJailFine, consecutiveDoubles is 0
   afterwards. *)
C38_StreakFollowsRoller ==
  [][(/\ TurnHolder(players', currentTurnIndex') # NoPlayer
      /\ TurnHolder(players', currentTurnIndex') # TurnHolder(players, currentTurnIndex)
      /\ TurnHolder(players', currentTurnIndex') # Roller(last', doublesRun))
     => consecutiveDoubles' = 0]_vars

(* C39: jail state is consistent in every state reachable from setup through the commands:
   a player in jail stands on the jail tile with jailTurns in 0..2, a player out of jail
   has jailTurns 0. *)
C39_JailConsistent ==
  \A k \in 1..Len(players) :
    IF players[k].inJail
    THEN players[k].position = JAIL_INDEX /\ players[k].jailTurns \in 0..(MAX_JAIL_TURNS - 1)
    ELSE players[k].jailTurns = 0

C39_Witness ==
  \E k \in 1..Len(players) :
    /\ players[k].inJail
    /\ players[k].jailTurns = MAX_JAIL_TURNS - 1
    /\ players[k].position = JAIL_INDEX
    /\ last.op = "roll"
    /\ last.actor = players[k].id

====
